---- MODULE Spec2Model ----
(***************************************************************************)
(* Event/cost ledger (EventService.track_event and its callers) and the    *)
(* campaign cache (TargetingRetrieval._get_active_campaigns / refresh) of  *)
(* the ad server, as a state machine.                                      *)
(*                                                                         *)
(* Strings are sequences of one-character strings, so that split("_"),     *)
(* int() and lower() are computed the way the code computes them.          *)
(* Money is an integer number of micro-units (the code's Decimal with six  *)
(* decimals, "0.000000"); bid amounts are multiples of 1000 micro-units,   *)
(* for which Decimal division by 1000 is exact.                            *)
(***************************************************************************)
EXTENDS Integers, Sequences, FiniteSets, Bags, TLC

None == "None"

\* An optional integer (int | None): <<>> is None, <<n>> is the integer n.
NoId == <<>>
Id(n) == <<n>>

\* ------------------------------------------------------------------ bounds
NumSessions == 2
MaxCalls == 3
MaxSeqCalls == 1
MaxAdmit == 3

Sessions == 1..NumSessions

\* ------------------------------------------------------- string helpers
Digits == <<"0", "1", "2", "3", "4", "5", "6", "7", "8", "9">>

UpperCase == <<"A", "B", "C", "D", "E", "F", "G", "H", "I", "J", "K", "L", "M",
               "N", "O", "P", "Q", "R", "S", "T", "U", "V", "W", "X", "Y", "Z">>

LowerCase == <<"a", "b", "c", "d", "e", "f", "g", "h", "i", "j", "k", "l", "m",
               "n", "o", "p", "q", "r", "s", "t", "u", "v", "w", "x", "y", "z">>

IsDigit(ch) == \E i \in 1..10 : Digits[i] = ch

DigitVal(ch) == (CHOOSE i \in 1..10 : Digits[i] = ch) - 1

LowerChar(ch) ==
    IF \E i \in 1..26 : UpperCase[i] = ch
    THEN LowerCase[CHOOSE i \in 1..26 : UpperCase[i] = ch]
    ELSE ch

\* str.lower()
Lower(s) == [i \in 1..Len(s) |-> LowerChar(s[i])]

\* str.split(sep) for a one-character separator: every occurrence splits,
\* empty parts are kept, and a string without the separator is one part.
RECURSIVE Split(_, _)
Split(s, sep) ==
    IF \A i \in 1..Len(s) : s[i] # sep
    THEN <<s>>
    ELSE LET k == CHOOSE i \in 1..Len(s) :
                      s[i] = sep /\ \A j \in 1..(i - 1) : s[j] # sep
         IN  <<SubSeq(s, 1, k - 1)>> \o Split(SubSeq(s, k + 1, Len(s)), sep)

\* int(s) succeeds on an optional sign followed by at least one digit
UnsignedPart(s) ==
    IF Len(s) > 0 /\ s[1] \in {"+", "-"} THEN SubSeq(s, 2, Len(s)) ELSE s

IsInt(s) ==
    /\ Len(UnsignedPart(s)) > 0
    /\ \A i \in 1..Len(UnsignedPart(s)) : IsDigit(UnsignedPart(s)[i])

RECURSIVE DigitsVal(_)
DigitsVal(s) ==
    IF Len(s) = 0 THEN 0
    ELSE 10 * DigitsVal(SubSeq(s, 1, Len(s) - 1)) + DigitVal(s[Len(s)])

IntOf(s) ==
    IF Len(s) > 0 /\ s[1] = "-"
    THEN 0 - DigitsVal(UnsignedPart(s))
    ELSE DigitsVal(UnsignedPart(s))

\* str(n) for n >= 0, as the f-string of the serving endpoint formats it
RECURSIVE FormatNat(_)
FormatNat(n) ==
    IF n < 10 THEN <<Digits[n + 1]>>
    ELSE FormatNat(n \div 10) \o <<Digits[(n % 10) + 1]>>

\* ------------------------------------------------------------ enums
IMPRESSION == "IMPRESSION"
CLICK == "CLICK"
CONVERSION == "CONVERSION"

CPM == "CPM"
CPC == "CPC"
CPA == "CPA"
OCPM == "OCPM"
BidTypes == {CPM, CPC, CPA, OCPM}

\* ------------------------------------------- Python values and JSON text
\* A Python value with its type: None, bool, int, float, str, list, dict.
\* A float holds its value in millionths; a str holds its characters; a
\* dict holds its keys in insertion order and the value of each key.
PyNone == [t |-> "none"]
PyBool(b) == [t |-> "bool", v |-> b]
PyInt(n) == [t |-> "int", v |-> n]
PyFloat(n) == [t |-> "float", v |-> n]
PyStr(s) == [t |-> "str", v |-> s]
PyList(items) == [t |-> "list", v |-> items]
PyDict(keys, map) == [t |-> "dict", keys |-> keys, v |-> map]

\* dict literal {k1: v1, ...} from <<k1, v1>>, ...
DictOf(items) ==
    PyDict([i \in 1..Len(items) |-> items[i][1]],
           [k \in {items[i][1] : i \in 1..Len(items)} |->
               items[CHOOSE i \in 1..Len(items) : items[i][1] = k][2]])

\* d.get(key, default) on a Python dict
PyGet(d, key, default) == IF key \in DOMAIN d.v THEN d.v[key] ELSE default

\* bool(value) for the types above
PyTruthy(pv) ==
    CASE pv.t = "none" -> FALSE
      [] pv.t = "bool" -> pv.v
      [] pv.t \in {"int", "float"} -> pv.v # 0
      [] pv.t = "str" -> Len(pv.v) > 0
      [] pv.t = "list" -> Len(pv.v) > 0
      [] pv.t = "dict" -> Len(pv.keys) > 0

\* A JSON text is the sequence of its lexical tokens.
Tok(k, v) == [k |-> k, v |-> v]
Punct(k) == Tok(k, 0)

RECURSIVE JsonDumps(_)
RECURSIVE DumpItems(_)
RECURSIVE DumpMembers(_, _)

\* json_dumps(value)
JsonDumps(pv) ==
    CASE pv.t = "none" -> <<Punct("null")>>
      [] pv.t = "bool" -> <<Punct(IF pv.v THEN "true" ELSE "false")>>
      [] pv.t \in {"int", "float", "str"} -> <<Tok(pv.t, pv.v)>>
      [] pv.t = "list" -> <<Punct("[")>> \o DumpItems(pv.v) \o <<Punct("]")>>
      [] pv.t = "dict" -> <<Punct("{")>> \o DumpMembers(pv.keys, pv.v)
                                       \o <<Punct("}")>>

DumpItems(items) ==
    IF Len(items) = 0 THEN <<>>
    ELSE IF Len(items) = 1 THEN JsonDumps(items[1])
    ELSE JsonDumps(items[1]) \o <<Punct(",")>> \o DumpItems(Tail(items))

DumpMembers(keys, map) ==
    IF Len(keys) = 0 THEN <<>>
    ELSE LET member == <<Tok("str", keys[1]), Punct(":")>> \o JsonDumps(map[keys[1]])
         IN  IF Len(keys) = 1 THEN member
             ELSE member \o <<Punct(",")>> \o DumpMembers(Tail(keys), map)

\* the parser: the value read at token i and the position after it, or
\* ok = FALSE for a text that is not JSON
ParseFails == [ok |-> FALSE, val |-> PyNone, next |-> 0]
Parsed(val, next) == [ok |-> TRUE, val |-> val, next |-> next]
Kind(text, i) == IF i <= Len(text) THEN text[i].k ELSE "eof"

RECURSIVE ParseValue(_, _)
RECURSIVE ParseItems(_, _, _)
RECURSIVE ParseMembers(_, _, _, _)

ParseValue(text, i) ==
    LET k == Kind(text, i)
    IN  CASE k = "null" -> Parsed(PyNone, i + 1)
          [] k = "true" -> Parsed(PyBool(TRUE), i + 1)
          [] k = "false" -> Parsed(PyBool(FALSE), i + 1)
          [] k = "int" -> Parsed(PyInt(text[i].v), i + 1)
          [] k = "float" -> Parsed(PyFloat(text[i].v), i + 1)
          [] k = "str" -> Parsed(PyStr(text[i].v), i + 1)
          [] k = "[" -> IF Kind(text, i + 1) = "]" THEN Parsed(PyList(<<>>), i + 2)
                        ELSE ParseItems(text, i + 1, <<>>)
          [] k = "{" -> IF Kind(text, i + 1) = "}"
                        THEN Parsed(PyDict(<<>>, <<>>), i + 2)
                        ELSE ParseMembers(text, i + 1, <<>>, <<>>)
          [] OTHER -> ParseFails

ParseItems(text, i, acc) ==
    LET r == ParseValue(text, i)
    IN  IF ~r.ok THEN ParseFails
        ELSE IF Kind(text, r.next) = ","
        THEN ParseItems(text, r.next + 1, Append(acc, r.val))
        ELSE IF Kind(text, r.next) = "]"
        THEN Parsed(PyList(Append(acc, r.val)), r.next + 1)
        ELSE ParseFails

\* a key that comes twice keeps its first place and its last value
ParseMembers(text, i, keys, map) ==
    IF Kind(text, i) # "str" \/ Kind(text, i + 1) # ":" THEN ParseFails
    ELSE LET key == text[i].v
             r == ParseValue(text, i + 2)
             keys2 == IF key \in DOMAIN map THEN keys ELSE Append(keys, key)
             map2 == (key :> r.val) @@ map
         IN  IF ~r.ok THEN ParseFails
             ELSE IF Kind(text, r.next) = ","
             THEN ParseMembers(text, r.next + 1, keys2, map2)
             ELSE IF Kind(text, r.next) = "}"
             THEN Parsed(PyDict(keys2, map2), r.next + 1)
             ELSE ParseFails

\* json_loads(text): ok = FALSE when it raises ValueError
JsonLoads(text) ==
    LET r == ParseValue(text, 1)
    IN  IF r.ok /\ r.next = Len(text) + 1 THEN r ELSE ParseFails

\* ------------------------------------------------- EventService helpers
\* _parse_ad_id with "return 0, 0" in the except branch
ParseAdIdZeroOnError(ad_id) ==
    LET parts == Split(ad_id, "_")
        num(p) == IF IsInt(p) THEN Id(IntOf(p)) ELSE Id(0)
    IN  IF Len(parts) >= 3 /\ parts[1] = <<"a", "d">>
        THEN IF IsInt(parts[2]) /\ IsInt(parts[3])
             THEN <<num(parts[2]), num(parts[3])>>
             ELSE <<Id(0), Id(0)>>
        ELSE IF Len(parts) >= 2
        THEN IF IsInt(parts[1]) /\ IsInt(parts[2])
             THEN <<num(parts[1]), num(parts[2])>>
             ELSE <<Id(0), Id(0)>>
        ELSE IF IsInt(ad_id)
             THEN <<num(ad_id), NoId>>
             ELSE <<Id(0), Id(0)>>

\* _parse_ad_id testing len(parts) >= 2 before the legacy form
ParseAdIdNewFormatFirst(ad_id) ==
    LET parts == Split(ad_id, "_")
    IN  IF Len(parts) >= 2
        THEN IF IsInt(parts[1]) /\ IsInt(parts[2])
             THEN <<Id(IntOf(parts[1])), Id(IntOf(parts[2]))>>
             ELSE <<NoId, NoId>>
        ELSE IF IsInt(ad_id)
             THEN <<Id(IntOf(ad_id)), NoId>>
             ELSE <<NoId, NoId>>

\* A failed int() raises ValueError inside the try of _parse_ad_id.
ParseAdId(ad_id) ==
    LET parts == Split(ad_id, "_")
    IN  IF Len(parts) >= 3 /\ parts[1] = <<"a", "d">>
        THEN IF IsInt(parts[2]) /\ IsInt(parts[3])
             THEN <<Id(IntOf(parts[2])), Id(IntOf(parts[3]))>>
             ELSE <<NoId, NoId>>
        ELSE IF Len(parts) >= 2
        THEN IF IsInt(parts[1]) /\ IsInt(parts[2])
             THEN <<Id(IntOf(parts[1])), Id(IntOf(parts[2]))>>
             ELSE <<NoId, NoId>>
        ELSE IF IsInt(ad_id)
             THEN <<Id(IntOf(ad_id)), NoId>>
             ELSE <<NoId, NoId>>

EventTypeMapping ==
    { << <<"i", "m", "p", "r", "e", "s", "s", "i", "o", "n">>, IMPRESSION >>,
      << <<"c", "l", "i", "c", "k">>, CLICK >>,
      << <<"c", "o", "n", "v", "e", "r", "s", "i", "o", "n">>, CONVERSION >>,
      << <<"i", "m", "p">>, IMPRESSION >>,
      << <<"c", "l", "k">>, CLICK >>,
      << <<"c", "o", "n", "v">>, CONVERSION >>,
      << <<"v">>, IMPRESSION >>,
      << <<"c">>, CLICK >>,
      << <<"x">>, CONVERSION >> }

\* mapping.get(event_type.lower(), EventType.IMPRESSION)
GetEventTypeDefaulting(event_type) ==
    IF \E m \in EventTypeMapping : m[1] = Lower(event_type)
    THEN (CHOOSE m \in EventTypeMapping : m[1] = Lower(event_type))[2]
    ELSE IMPRESSION

\* mapping.get(event_type.lower())
GetEventType(event_type) ==
    IF \E m \in EventTypeMapping : m[1] = Lower(event_type)
    THEN (CHOOSE m \in EventTypeMapping : m[1] = Lower(event_type))[2]
    ELSE None

\* _calculate_cost without the house-ad exemption
CostOfChargingHouseAds(campaign, event_type) ==
    IF campaign.bid_type = CPM \/ campaign.bid_type = OCPM
    THEN IF event_type = IMPRESSION THEN campaign.bid_amount \div 1000 ELSE 0
    ELSE IF campaign.bid_type = CPC
    THEN IF event_type = CLICK THEN campaign.bid_amount ELSE 0
    ELSE IF campaign.bid_type = CPA
    THEN IF event_type = CONVERSION THEN campaign.bid_amount ELSE 0
    ELSE 0

\* _calculate_cost charging a CPM impression the whole bid
CostOfWholeBid(campaign, event_type) ==
    IF campaign.is_house_ad THEN 0
    ELSE IF campaign.bid_type = CPM \/ campaign.bid_type = OCPM
    THEN IF event_type = IMPRESSION THEN campaign.bid_amount ELSE 0
    ELSE IF campaign.bid_type = CPC
    THEN IF event_type = CLICK THEN campaign.bid_amount ELSE 0
    ELSE IF campaign.bid_type = CPA
    THEN IF event_type = CONVERSION THEN campaign.bid_amount ELSE 0
    ELSE 0

\* The cost rules of _calculate_cost for a campaign row that was found.
CostOf(campaign, event_type) ==
    IF campaign.is_house_ad THEN 0
    ELSE IF campaign.bid_type = CPM \/ campaign.bid_type = OCPM
    THEN IF event_type = IMPRESSION THEN campaign.bid_amount \div 1000 ELSE 0
    ELSE IF campaign.bid_type = CPC
    THEN IF event_type = CLICK THEN campaign.bid_amount ELSE 0
    ELSE IF campaign.bid_type = CPA
    THEN IF event_type = CONVERSION THEN campaign.bid_amount ELSE 0
    ELSE 0

\* ------------------------------------------------------------------ state
VARIABLES
    campaigns,   \* committed rows of table campaigns, by id
    events,      \* committed rows of table ad_events, as a bag of rows
    lock,        \* session holding the row lock of a campaign row, or 0
    sess,        \* per database session: position and locals of its request
    stats,       \* Redis hash stat_hourly(campaign, hour), by campaign id
    freqDaily,   \* Redis key freq_daily(user, campaign, today), by <<user, campaign>>
    freqHourly,  \* Redis key freq_hourly(user, campaign, hour), by <<user, campaign>>
    admitted,    \* impressions the admission step let through, by <<user, campaign>>
    pending,     \* per user: the ad_id whose impression URL is still to be
                 \* fetched, or the empty string
    nCalls,      \* track_event calls started so far
    failed,      \* some track_event call has returned False
    seqCall,     \* the latest call made one at a time: its arguments, the
                 \* shared state when it started, and what it returned
    cache,       \* Redis key active_ads: the cached snapshot and its expiry
    req,         \* per retrieval request: position in _get_active_campaigns
    now,         \* wall-clock time in seconds
    epoch,       \* number of refresh() calls that have completed
    nGets,       \* _get_active_campaigns calls started so far
    lastGet,     \* the latest _get_active_campaigns call made one at a time:
                 \* what it returned, and the call before it when nothing
                 \* was written or invalidated since that call began
    fc           \* the latest application of a synchronous function of the
                 \* code: its name, its arguments and what it returned

ledgerVars == <<events, lock, sess, stats, freqDaily, freqHourly,
                admitted, pending, nCalls, failed, seqCall>>

cacheVars == <<cache, req, now, epoch, nGets, lastGet>>

vars == <<campaigns, events, lock, sess, stats, freqDaily, freqHourly,
          admitted, pending, nCalls, failed, seqCall, cache, req, now, epoch, nGets,
          lastGet, fc>>

Users == {"u1", "u2"}

\* ids of the campaign rows that exist
CampaignIds == {1, 2}
CreativeOf(c) == c

StatTTL == 48 * 3600
DailyTTL == 24 * 3600
HourlyTTL == 3600

IdleSession ==
    [pc |-> "idle", caller |-> None, ad_id |-> <<>>,
     event_type |-> <<>>, user_id |-> None, for_user |-> None,
     campaign_id |-> NoId, creative_id |-> NoId, etype |-> None,
     cost |-> 0, dirty |-> FALSE, new_today |-> 0, new_total |-> 0,
     flushed |-> FALSE, touched |-> FALSE, raised |-> FALSE,
     result |-> FALSE]

\* What a call can observe of the shared state, recorded when it starts.
Observable ==
    [campaigns |-> campaigns, events |-> events, stats |-> stats,
     freqDaily |-> freqDaily, freqHourly |-> freqHourly]

\* f"{candidate.campaign_id}_{candidate.creative_id}"
FormatAdId(c, cr) == FormatNat(c) \o <<"_">> \o FormatNat(cr)

\* bool(user_id): None and the empty string are falsy
Truthy(user_id) == user_id # None /\ user_id # ""

\* the AdEvent row inserted without its cost
EventRowWithoutCost(s) ==
    [campaign_id |-> sess[s].campaign_id,
     creative_id |-> sess[s].creative_id, event_type |-> sess[s].etype,
     user_id |-> sess[s].user_id, cost |-> 0]

\* The AdEvent row the session inserts.
EventRow(s) ==
    [campaign_id |-> sess[s].campaign_id,
     creative_id |-> sess[s].creative_id, event_type |-> sess[s].etype,
     user_id |-> sess[s].user_id, cost |-> sess[s].cost]

\* ad_events.campaign_id and ad_events.creative_id are NOT NULL.
Insertable(ev) == ev.campaign_id # NoId /\ ev.creative_id # NoId

\* ------------------------------------------------------- track_event steps
\* try: _parse_ad_id, _get_event_type; unknown type returns False at once.
TrackBegin(s, caller, ad_id, event_type, user_id, for_user) ==
    /\ sess[s].pc = "idle"
    /\ nCalls' = nCalls + 1
    /\ LET ids == ParseAdId(ad_id)
           et == GetEventType(event_type)
           base == [IdleSession EXCEPT !.caller = caller,
                       !.ad_id = ad_id,
                       !.event_type = event_type, !.user_id = user_id,
                       !.for_user = for_user,
                       !.campaign_id = ids[1], !.creative_id = ids[2]]
       IN  sess' = [sess EXCEPT ![s] =
                IF et = None
                THEN [base EXCEPT !.pc = "returned", !.result = FALSE]
                ELSE [base EXCEPT !.pc = "cost", !.etype = et]]
    /\ UNCHANGED <<campaigns, events, lock, stats, freqDaily, freqHourly,
                   admitted, pending, failed, cacheVars, fc>>

\* _calculate_cost with scalar_one() for scalar_one_or_none(): a missing
\* campaign raises NoResultFound, which track_event turns into False
CalculateCostRequiringCampaign(s) ==
    /\ sess[s].pc = "cost"
    /\ LET cid == sess[s].campaign_id
       IN  sess' = [sess EXCEPT ![s] =
                IF cid = NoId
                THEN [@ EXCEPT !.pc = "flush", !.cost = 0]
                ELSE IF cid[1] \notin DOMAIN campaigns
                THEN [@ EXCEPT !.pc = "returned", !.result = FALSE]
                ELSE LET row == campaigns[cid[1]]
                         cost == CostOf(row, sess[s].etype)
                     IN  IF cost > 0
                         THEN [@ EXCEPT !.pc = "flush", !.cost = cost,
                                  !.dirty = TRUE,
                                  !.new_today = row.spent_today + cost,
                                  !.new_total = row.spent_total + cost]
                         ELSE [@ EXCEPT !.pc = "flush", !.cost = cost]]
    /\ UNCHANGED <<campaigns, events, lock, stats, freqDaily, freqHourly,
                   admitted, pending, nCalls, failed, seqCall, cacheVars, fc>>

\* _calculate_cost: the SELECT reads the committed row; the spend is then
\* raised on the loaded object, to be written by the next flush.
CalculateCost(s) ==
    /\ sess[s].pc = "cost"
    /\ LET cid == sess[s].campaign_id
       IN  sess' = [sess EXCEPT ![s] =
                IF cid = NoId \/ cid[1] \notin DOMAIN campaigns
                THEN [@ EXCEPT !.pc = "flush", !.cost = 0]
                ELSE LET row == campaigns[cid[1]]
                         cost == CostOf(row, sess[s].etype)
                     IN  IF cost > 0
                         THEN [@ EXCEPT !.pc = "flush", !.cost = cost,
                                  !.dirty = TRUE,
                                  !.new_today = row.spent_today + cost,
                                  !.new_total = row.spent_total + cost]
                         ELSE [@ EXCEPT !.pc = "flush", !.cost = cost]]
    /\ UNCHANGED <<campaigns, events, lock, stats, freqDaily, freqHourly,
                   admitted, pending, nCalls, failed, seqCall, cacheVars, fc>>

\* session.execute raises (store unavailable): caught, returns False.
CalculateCostFails(s) ==
    /\ sess[s].pc = "cost"
    /\ sess[s].campaign_id # NoId
    /\ sess' = [sess EXCEPT ![s] = [@ EXCEPT !.pc = "returned", !.raised = TRUE,
                                       !.result = FALSE]]
    /\ UNCHANGED <<campaigns, events, lock, stats, freqDaily, freqHourly,
                   admitted, pending, nCalls, failed, seqCall, cacheVars, fc>>

\* session.add(event); session.flush(): UPDATE of the dirty campaign row
\* (waits for the row lock) and INSERT of the event, in the session's
\* transaction. A constraint violation raises and rolls the transaction back.
Flush(s) ==
    /\ sess[s].pc = "flush"
    /\ sess[s].dirty => lock[sess[s].campaign_id[1]] \in {0, s}
    /\ IF Insertable(EventRow(s))
       THEN /\ sess' = [sess EXCEPT ![s] = [@ EXCEPT !.pc = "stats_incr",
                                               !.flushed = TRUE]]
            /\ lock' = IF sess[s].dirty
                       THEN [lock EXCEPT ![sess[s].campaign_id[1]] = s]
                       ELSE lock
       ELSE /\ sess' = [sess EXCEPT ![s] = [@ EXCEPT !.pc = "returned",
                                               !.dirty = FALSE,
                                               !.result = FALSE]]
            /\ lock' = lock
    /\ UNCHANGED <<campaigns, events, stats, freqDaily, freqHourly,
                   admitted, pending, nCalls, failed, seqCall, cacheVars, fc>>

\* flush raises for another reason (store unavailable): rolled back.
FlushFails(s) ==
    /\ sess[s].pc = "flush"
    /\ sess' = [sess EXCEPT ![s] = [@ EXCEPT !.pc = "returned", !.dirty = FALSE,
                                       !.raised = TRUE, !.result = FALSE]]
    /\ UNCHANGED <<campaigns, events, lock, stats, freqDaily, freqHourly,
                   admitted, pending, nCalls, failed, seqCall, cacheVars, fc>>

\* ------------------------------------------------------------ Redis ops
\* every event counted as an impression
StatFieldImpressions(event_type) == "impressions"

StatField(event_type) ==
    IF event_type = IMPRESSION THEN "impressions"
    ELSE IF event_type = CLICK THEN "clicks"
    ELSE "conversions"

\* the frequency step taken for every event type
AfterStatsAnyEvent(s) ==
    IF Truthy(sess[s].user_id)
    THEN IF sess[s].campaign_id = NoId
         THEN [sess[s] EXCEPT !.pc = "returned", !.result = TRUE]
         ELSE [sess[s] EXCEPT !.pc = "freq_d_incr"]
    ELSE [sess[s] EXCEPT !.pc = "returned", !.result = TRUE]

\* HINCRBY key field 1: a missing hash is created, without expiry
HIncrBy(h, key, field) ==
    IF key \in DOMAIN h
    THEN [h EXCEPT ![key][field] = @ + 1]
    ELSE h @@ (key :> [[impressions |-> 0, clicks |-> 0, conversions |-> 0,
                        ttl |-> 0] EXCEPT ![field] = 1])

\* INCR key: a missing key is created with value 1, without expiry
Incr(f, key) ==
    IF key \in DOMAIN f
    THEN [f EXCEPT ![key].n = @ + 1]
    ELSE f @@ (key :> [n |-> 1, ttl |-> 0])

\* EXPIRE key seconds: no effect on a missing key
Expire(f, key, seconds) ==
    IF key \in DOMAIN f THEN [f EXCEPT ![key].ttl = seconds] ELSE f

\* the step after _update_stats: line 78 of track_event
AfterStats(s) ==
    IF sess[s].etype = IMPRESSION /\ Truthy(sess[s].user_id)
    THEN IF sess[s].campaign_id = NoId
         THEN [sess[s] EXCEPT !.pc = "returned", !.result = TRUE]
         ELSE [sess[s] EXCEPT !.pc = "freq_d_incr"]
    ELSE [sess[s] EXCEPT !.pc = "returned", !.result = TRUE]

\* _update_stats, first await: hincrby
UpdateStatsIncr(s) ==
    /\ sess[s].pc = "stats_incr"
    /\ IF sess[s].campaign_id = NoId
       THEN /\ stats' = stats
            /\ sess' = [sess EXCEPT ![s] = AfterStats(s)]
       ELSE /\ stats' = HIncrBy(stats, sess[s].campaign_id[1],
                                StatField(sess[s].etype))
            /\ sess' = [sess EXCEPT ![s] = [@ EXCEPT !.pc = "stats_exp",
                                               !.touched = TRUE]]
    /\ UNCHANGED <<campaigns, events, lock, freqDaily, freqHourly,
                   admitted, pending, nCalls, failed, seqCall, cacheVars, fc>>

\* _update_stats, second await: expire(key, 48h)
UpdateStatsExpire(s) ==
    /\ sess[s].pc = "stats_exp"
    /\ stats' = Expire(stats, sess[s].campaign_id[1], StatTTL)
    /\ sess' = [sess EXCEPT ![s] = AfterStats(s)]
    /\ UNCHANGED <<campaigns, events, lock, freqDaily, freqHourly,
                   admitted, pending, nCalls, failed, seqCall, cacheVars, fc>>

FreqKey(s) == <<sess[s].user_id, sess[s].campaign_id[1]>>

\* _update_frequency: incr(daily_key)
FreqDailyIncr(s) ==
    /\ sess[s].pc = "freq_d_incr"
    /\ freqDaily' = Incr(freqDaily, FreqKey(s))
    /\ sess' = [sess EXCEPT ![s] = [@ EXCEPT !.pc = "freq_d_exp", !.touched = TRUE]]
    /\ UNCHANGED <<campaigns, events, lock, stats, freqHourly,
                   admitted, pending, nCalls, failed, seqCall, cacheVars, fc>>

\* _update_frequency: expire(daily_key, 24h)
FreqDailyExpire(s) ==
    /\ sess[s].pc = "freq_d_exp"
    /\ freqDaily' = Expire(freqDaily, FreqKey(s), DailyTTL)
    /\ sess' = [sess EXCEPT ![s] = [@ EXCEPT !.pc = "freq_h_incr"]]
    /\ UNCHANGED <<campaigns, events, lock, stats, freqHourly,
                   admitted, pending, nCalls, failed, seqCall, cacheVars, fc>>

\* _update_frequency: incr(hourly_key)
FreqHourlyIncr(s) ==
    /\ sess[s].pc = "freq_h_incr"
    /\ freqHourly' = Incr(freqHourly, FreqKey(s))
    /\ sess' = [sess EXCEPT ![s] = [@ EXCEPT !.pc = "freq_h_exp"]]
    /\ UNCHANGED <<campaigns, events, lock, stats, freqDaily,
                   admitted, pending, nCalls, failed, seqCall, cacheVars, fc>>

\* _update_frequency: expire(hourly_key, 1h); then track_event returns True
FreqHourlyExpire(s) ==
    /\ sess[s].pc = "freq_h_exp"
    /\ freqHourly' = Expire(freqHourly, FreqKey(s), HourlyTTL)
    /\ sess' = [sess EXCEPT ![s] = [@ EXCEPT !.pc = "returned", !.result = TRUE]]
    /\ UNCHANGED <<campaigns, events, lock, stats, freqDaily,
                   admitted, pending, nCalls, failed, seqCall, cacheVars, fc>>

RedisSteps == {"stats_incr", "stats_exp", "freq_d_incr", "freq_d_exp",
               "freq_h_incr", "freq_h_exp"}

\* A Redis call raises: caught by track_event, which returns False.
RedisFails(s) ==
    /\ sess[s].pc \in RedisSteps
    /\ sess[s].campaign_id # NoId
    /\ sess' = [sess EXCEPT ![s] = [@ EXCEPT !.pc = "returned", !.raised = TRUE,
                                       !.result = FALSE]]
    /\ UNCHANGED <<campaigns, events, lock, stats, freqDaily, freqHourly,
                   admitted, pending, nCalls, failed, seqCall, cacheVars, fc>>

\* ------------------------------------------------------------ the callers
\* session.commit() after track_event has returned, whatever it returned:
\* the flushed UPDATE and INSERT become visible and the row lock is released.
CommitEffects(s) ==
    /\ sess[s].pc = "returned"
    /\ campaigns' = IF sess[s].flushed /\ sess[s].dirty
                    THEN [campaigns EXCEPT
                            ![sess[s].campaign_id[1]].spent_today = sess[s].new_today,
                            ![sess[s].campaign_id[1]].spent_total = sess[s].new_total]
                    ELSE campaigns
    /\ events' = IF sess[s].flushed
                 THEN events (+) SetToBag({EventRow(s)})
                 ELSE events
    /\ lock' = [c \in DOMAIN lock |-> IF lock[c] = s THEN 0 ELSE lock[c]]
    /\ pending' = IF sess[s].for_user # None /\ sess[s].result
                  THEN [pending EXCEPT ![sess[s].for_user] = <<>>]
                  ELSE pending
    /\ sess' = [sess EXCEPT ![s] = IdleSession]
    /\ failed' = (failed \/ ~sess[s].result)
    /\ UNCHANGED <<stats, freqDaily, freqHourly, admitted, nCalls, cacheVars, fc>>

\* serve_ad_image: await ad_service.session.commit()
CommitServe(s) ==
    /\ sess[s].caller = "serve"
    /\ CommitEffects(s)

\* the session dependency of the event router commits when the handler ends
CommitSession(s) ==
    /\ sess[s].caller \in {"px", "post"}
    /\ CommitEffects(s)

\* Admission of a candidate of campaign c for user u (None: no user_id).
BudgetAdmits(c) ==
    /\ campaigns[c].budget_daily > 0 /\ ~campaigns[c].is_house_ad
          => campaigns[c].spent_today < campaigns[c].budget_daily
    /\ campaigns[c].budget_total > 0 /\ ~campaigns[c].is_house_ad
          => campaigns[c].spent_total < campaigns[c].budget_total

Count(f, key) == IF key \in DOMAIN f THEN f[key].n ELSE 0

FrequencyAdmits(c, u) ==
    /\ campaigns[c].freq_cap_daily > 0
          => Count(freqDaily, <<u, c>>) < campaigns[c].freq_cap_daily
    /\ campaigns[c].freq_cap_hourly > 0
          => Count(freqHourly, <<u, c>>) < campaigns[c].freq_cap_hourly

\* request_ads for user u: a candidate of campaign c passes admission and
\* is returned with its tracking URLs; the user's browser has fetched the
\* impression URL of the previous ad, with success, before it asks for the
\* next one.
RequestAds(u, c) ==
    /\ pending[u] = <<>>
    /\ \A s \in Sessions : sess[s].pc # "idle" => sess[s].for_user # u
    /\ admitted[<<u, c>>] < MaxAdmit
    /\ BudgetAdmits(c)
    /\ FrequencyAdmits(c, u)
    /\ admitted' = [admitted EXCEPT ![<<u, c>>] = @ + 1]
    /\ pending' = [pending EXCEPT ![u] = FormatAdId(c, CreativeOf(c))]
    /\ UNCHANGED <<campaigns, events, lock, sess, stats, freqDaily, freqHourly,
                   nCalls, failed, seqCall, cacheVars, fc>>

\* GET /px/?t=v&r=..&i=..: the impression URL issued to user u is fetched
TrackEventGet(s, u) ==
    /\ pending[u] # <<>>
    /\ \A t \in Sessions : sess[t].pc # "idle" => sess[t].for_user # u
    /\ TrackBegin(s, "px", pending[u], <<"v">>, None, u)

\* POST /track with the fields of the EventRequest
TrackEventPost(s, ad_id, event_type, user_id) ==
    TrackBegin(s, "post", ad_id, event_type, user_id, None)

\* GET /serve: the first admitted candidate is tracked as an impression on
\* the request's own session
ServeAdImage(s, c) ==
    /\ BudgetAdmits(c)
    /\ TrackBegin(s, "serve", FormatAdId(c, CreativeOf(c)),
                  <<"i", "m", "p", "r", "e", "s", "s", "i", "o", "n">>, None, None)

\* ------------------------------------------------------- initial states
ACTIVE == "ACTIVE"
PAUSED == "PAUSED"

\* a row of table creatives; the nullable columns hold a Python value
CreativeRow(id, status, width, height) ==
    [id |-> id, status |-> status, title |-> PyNone, description |-> PyNone,
     image_url |-> PyStr(<<"i">>), video_url |-> PyNone,
     landing_url |-> PyStr(<<"l">>), creative_type |-> 1,
     width |-> width, height |-> height]

\* a row of table targeting_rules
RuleRow(rule_type, rule_value, is_include) ==
    [rule_type |-> rule_type, rule_value |-> rule_value, is_include |-> is_include]

CampaignRow(bid_type, bid_amount, is_house_ad, budget_daily, freq_cap_daily, cid) ==
    [advertiser_id |-> 1, name |-> <<"c">>,
     bid_type |-> bid_type, bid_amount |-> bid_amount, is_house_ad |-> is_house_ad,
     priority_boost |-> 0,
     spent_today |-> 0, spent_total |-> 0,
     budget_daily |-> budget_daily, budget_total |-> 0,
     freq_cap_daily |-> freq_cap_daily, freq_cap_hourly |-> 0,
     page_targeting |-> PyNone, target_domains |-> PyNone,
     status |-> ACTIVE,
     creatives |-> <<CreativeRow(CreativeOf(cid), ACTIVE, PyInt(300), PyInt(250))>>,
     targeting_rules |-> <<>>]

\* campaign 1: CPM, bid 2.00, daily budget 0.003, one impression per user and
\* day; campaign 2: a house ad without budget or cap
PaidCampaign == CampaignRow(CPM, 2000000, FALSE, 3000, 1, 1)
HouseCampaign == CampaignRow(CPC, 1000000, TRUE, 0, 0, 2)

IdleRequest ==
    [pc |-> "idle", start_epoch |-> 0, list |-> PyList(<<>>), read_epoch |-> 0,
     read_at |-> 0, result |-> PyList(<<>>), result_epoch |-> 0,
     result_read_at |-> 0, hit |-> FALSE]

NumRequests == 2
Requests == 1..NumRequests

EmptyCache == [present |-> FALSE, val |-> <<>>, expires_at |-> 0,
               read_epoch |-> 0, read_at |-> 0]

NoCall ==
    [phase |-> "none", ad_id |-> <<>>, event_type |-> <<>>, user_id |-> None,
     pre |-> <<>>, result |-> FALSE, raised |-> FALSE, etype |-> None,
     campaign_id |-> NoId, creative_id |-> NoId, cost |-> 0]

NoApply == [fn |-> "none"]

NoGet ==
    [done |-> FALSE, result |-> PyList(<<>>), hit |-> FALSE, until |-> 0,
     dirty |-> FALSE, prev_ok |-> FALSE, prev |-> NoId]

\* Redis holds no key
InitRedis ==
    /\ stats = <<>>
    /\ freqDaily = <<>>
    /\ freqHourly = <<>>

InitOther ==
    /\ events = EmptyBag
    /\ lock = [c \in CampaignIds |-> 0]
    /\ sess = [s \in Sessions |-> IdleSession]
    /\ admitted = [k \in Users \X CampaignIds |-> 0]
    /\ pending = [u \in Users |-> <<>>]
    /\ nCalls = 0
    /\ failed = FALSE
    /\ seqCall = NoCall
    /\ cache = EmptyCache
    /\ req = [r \in Requests |-> IdleRequest]
    /\ now = 0
    /\ epoch = 0
    /\ nGets = 0
    /\ lastGet = NoGet
    /\ fc = NoApply

InitRest == InitRedis /\ InitOther

Init ==
    /\ campaigns = (1 :> PaidCampaign) @@ (2 :> HouseCampaign)
    /\ InitRest

\* ------------------------------------------- concurrent event ingestion
\* the campaign whose candidates win the auction, and the user whose client
\* reports its impressions through POST /track
ServedCampaigns == {1}
PostUsers == {"u1"}

Step(s) ==
    \/ CalculateCost(s)
    \/ CalculateCostFails(s)
    \/ Flush(s)
    \/ FlushFails(s)
    \/ UpdateStatsIncr(s)
    \/ UpdateStatsExpire(s)
    \/ FreqDailyIncr(s)
    \/ FreqDailyExpire(s)
    \/ FreqHourlyIncr(s)
    \/ FreqHourlyExpire(s)
    \/ RedisFails(s)
    \/ CommitServe(s) /\ UNCHANGED seqCall
    \/ CommitSession(s) /\ UNCHANGED seqCall

Next ==
    \/ \E u \in Users, c \in ServedCampaigns : RequestAds(u, c)
    \/ \E s \in Sessions, u \in Users :
          nCalls < MaxCalls /\ TrackEventGet(s, u) /\ UNCHANGED seqCall
    \/ \E s \in Sessions, c \in ServedCampaigns, user_id \in PostUsers :
            /\ nCalls < MaxCalls
            /\ TrackEventPost(s, FormatAdId(c, CreativeOf(c)), <<"v">>, user_id)
            /\ UNCHANGED seqCall
    \/ \E s \in Sessions, c \in ServedCampaigns :
          nCalls < MaxCalls /\ ServeAdImage(s, c) /\ UNCHANGED seqCall
    \/ \E s \in Sessions : Step(s)

Spec == Init /\ [][Next]_vars

\* ------------------------------------------- one call at a time, any input
SeqBidAmounts == {0, 2000000}

\* <<spent_today, spent_total>> of campaign 1 when the call is made
SeqSpent == {<<5000, 12000>>}

\* Redis as earlier calls of the same hour have left it: stat hashes of
\* campaigns 1 and 2, frequency counters of the pairs (u1, 1) and (u1, 2),
\* each with the expiry its writer has set
InitSeqRedis ==
    /\ stats = (1 :> [impressions |-> 3, clicks |-> 1, conversions |-> 0,
                      ttl |-> StatTTL])
               @@ (2 :> [impressions |-> 2, clicks |-> 0, conversions |-> 0,
                         ttl |-> StatTTL])
    /\ freqDaily = (<<"u1", 1>> :> [n |-> 1, ttl |-> DailyTTL])
                   @@ (<<"u1", 2>> :> [n |-> 2, ttl |-> DailyTTL])
    /\ freqHourly = (<<"u1", 1>> :> [n |-> 1, ttl |-> HourlyTTL])
                    @@ (<<"u1", 2>> :> [n |-> 2, ttl |-> HourlyTTL])

InitSeq ==
    /\ \E bt \in BidTypes, amount \in SeqBidAmounts, house \in BOOLEAN,
          spent \in SeqSpent :
          campaigns = (1 :> [CampaignRow(bt, amount, house, 0, 0, 1) EXCEPT
                                !.spent_today = spent[1], !.spent_total = spent[2]])
                        @@ (2 :> HouseCampaign)
    /\ InitSeqRedis
    /\ InitOther

SeqAdIds ==
    { <<"1", "_", "1">>, <<"a", "d", "_", "1", "_", "1">>, <<"a", "d", "_", "5">>,
      <<"x", "_", "1">>, <<"1">>, <<"3", "_", "1">>, <<>> }

SeqEventTypes ==
    { <<"v">>, <<"c">>, <<"C", "L", "I", "C", "K">>, <<"c", "o", "n", "v">>,
      <<"v", "i", "e", "w">>, <<>> }

SeqUserIds == {None, "u1"}

NextSeq ==
    \/ \E ad_id \in SeqAdIds, event_type \in SeqEventTypes, user_id \in SeqUserIds :
          /\ nCalls < MaxSeqCalls
          /\ TrackEventPost(1, ad_id, event_type, user_id)
          /\ seqCall' = [phase |-> "running", ad_id |-> ad_id,
                         event_type |-> event_type, user_id |-> user_id,
                         pre |-> Observable, result |-> FALSE,
                         raised |-> FALSE, etype |-> None,
                         campaign_id |-> NoId, creative_id |-> NoId, cost |-> 0]
    \/ CalculateCost(1)
    \/ CalculateCostFails(1)
    \/ Flush(1)
    \/ FlushFails(1)
    \/ UpdateStatsIncr(1)
    \/ UpdateStatsExpire(1)
    \/ FreqDailyIncr(1)
    \/ FreqDailyExpire(1)
    \/ FreqHourlyIncr(1)
    \/ FreqHourlyExpire(1)
    \/ RedisFails(1)
    \/ /\ CommitSession(1)
       /\ seqCall' = [seqCall EXCEPT !.phase = "finished",
                                     !.result = sess[1].result,
                                     !.raised = sess[1].raised,
                                     !.etype = sess[1].etype,
                                     !.campaign_id = sess[1].campaign_id,
                                     !.creative_id = sess[1].creative_id,
                                     !.cost = sess[1].cost]

SpecSeq == InitSeq /\ [][NextSeq]_vars

\* ------------------------------------------------------- campaign cache
CacheTTL == 300
QueryLimit == 1000

\* bounds of the cache model
TickSeconds == 200
MaxTime == 400
MaxGets == 3
MaxRefresh == 2

RECURSIVE Ascending(_)
Ascending(S) ==
    IF S = {} THEN <<>>
    ELSE LET m == CHOOSE x \in S : \A y \in S : x <= y
         IN  <<m>> \o Ascending(S \ {m})

FirstN(q, n) == SubSeq(q, 1, IF Len(q) < n THEN Len(q) ELSE n)

\* SELECT campaigns WHERE status = ACTIVE LIMIT 1000, rows in id order
QueryActive(rows) ==
    FirstN(Ascending({c \in DOMAIN rows : rows[c].status = ACTIVE}), QueryLimit)

\* Campaign.is_active
IsActive(row) == row.status = ACTIVE

\* the creatives of the campaign whatever their status, as dicts
AllCreatives(row) ==
    [i \in 1..Len(row.creatives) |->
        DictOf(<< <<"id", PyInt(row.creatives[i].id)>>,
                  <<"title", row.creatives[i].title>>,
                  <<"description", row.creatives[i].description>>,
                  <<"image_url", row.creatives[i].image_url>>,
                  <<"video_url", row.creatives[i].video_url>>,
                  <<"landing_url", row.creatives[i].landing_url>>,
                  <<"creative_type", PyInt(row.creatives[i].creative_type)>>,
                  <<"width", row.creatives[i].width>>,
                  <<"height", row.creatives[i].height>> >>)]

\* the creatives of the campaign with status ACTIVE, as dicts
ActiveCreatives(row) ==
    LET act == SelectSeq(row.creatives, LAMBDA cr : cr.status = ACTIVE)
    IN  [i \in 1..Len(act) |->
            DictOf(<< <<"id", PyInt(act[i].id)>>,
                      <<"title", act[i].title>>,
                      <<"description", act[i].description>>,
                      <<"image_url", act[i].image_url>>,
                      <<"video_url", act[i].video_url>>,
                      <<"landing_url", act[i].landing_url>>,
                      <<"creative_type", PyInt(act[i].creative_type)>>,
                      <<"width", act[i].width>>,
                      <<"height", act[i].height>> >>)]

\* the targeting rules of the campaign, as dicts
RuleDicts(row) ==
    [i \in 1..Len(row.targeting_rules) |->
        DictOf(<< <<"rule_type", PyStr(row.targeting_rules[i].rule_type)>>,
                  <<"rule_value", row.targeting_rules[i].rule_value>>,
                  <<"is_include", PyBool(row.targeting_rules[i].is_include)>> >>)]

\* the value of a BidType member
BidTypeValue(bid_type) ==
    CASE bid_type = CPM -> 1 [] bid_type = CPC -> 2
      [] bid_type = CPA -> 3 [] bid_type = OCPM -> 4

\* float(x) if x else None
FloatOrNone(x) == IF x # 0 THEN PyFloat(x) ELSE PyNone

\* campaign_data
CampaignData(rows, c) ==
    DictOf(<< <<"id", PyInt(c)>>,
              <<"advertiser_id", PyInt(rows[c].advertiser_id)>>,
              <<"name", PyStr(rows[c].name)>>,
              <<"bid_type", PyInt(BidTypeValue(rows[c].bid_type))>>,
              <<"bid_amount", PyFloat(rows[c].bid_amount)>>,
              <<"priority_boost", IF rows[c].priority_boost # 0
                                  THEN PyFloat(rows[c].priority_boost)
                                  ELSE PyFloat(1000000)>>,
              <<"budget_daily", FloatOrNone(rows[c].budget_daily)>>,
              <<"budget_total", FloatOrNone(rows[c].budget_total)>>,
              <<"spent_today", PyFloat(rows[c].spent_today)>>,
              <<"spent_total", PyFloat(rows[c].spent_total)>>,
              <<"freq_cap_daily", PyInt(rows[c].freq_cap_daily)>>,
              <<"freq_cap_hourly", PyInt(rows[c].freq_cap_hourly)>>,
              <<"is_house_ad", PyBool(rows[c].is_house_ad)>>,
              <<"page_targeting", rows[c].page_targeting>>,
              <<"target_domains", rows[c].target_domains>>,
              <<"creatives", PyList(ActiveCreatives(rows[c]))>>,
              <<"targeting_rules", PyList(RuleDicts(rows[c]))>> >>)

\* the loop of _get_active_campaigns over the query result
RECURSIVE BuildList(_, _)
BuildList(rows, ids) ==
    IF ids = <<>> THEN <<>>
    ELSE LET c == Head(ids)
             rest == BuildList(rows, Tail(ids))
         IN  IF IsActive(rows[c]) /\ ActiveCreatives(rows[c]) # <<>>
             THEN <<CampaignData(rows, c)>> \o rest
             ELSE rest

\* redis_client.get(key) returns a value: the key is present and not expired
CacheLive == cache.present /\ now < cache.expires_at

\* a request enters _get_active_campaigns
GetBegin(r) ==
    /\ req[r].pc = "idle"
    /\ nGets < MaxGets
    /\ nGets' = nGets + 1
    /\ req' = [req EXCEPT ![r] = [IdleRequest EXCEPT !.pc = "get",
                                                     !.start_epoch = epoch]]
    /\ UNCHANGED <<campaigns, ledgerVars, fc, cache, now, epoch>>

\* cached = await redis_client.get(cache_key); a hit returns
\* json_loads(cached), and a text that does not load counts as a miss
GetCached(r) ==
    /\ req[r].pc = "get"
    /\ req' = [req EXCEPT ![r] =
                 IF CacheLive /\ Len(cache.val) > 0 /\ JsonLoads(cache.val).ok
                 THEN [@ EXCEPT !.pc = "returned", !.hit = TRUE,
                          !.result = JsonLoads(cache.val).val,
                          !.result_epoch = cache.read_epoch,
                          !.result_read_at = cache.read_at]
                 ELSE [@ EXCEPT !.pc = "query"]]
    /\ UNCHANGED <<campaigns, ledgerVars, fc, cache, now, epoch, nGets>>

\* result = await self.session.execute(stmt), and the loop over its rows
QueryStore(r) ==
    /\ req[r].pc = "query"
    /\ req' = [req EXCEPT ![r] = [@ EXCEPT !.pc = "set",
                                     !.list = PyList(BuildList(campaigns,
                                                       QueryActive(campaigns))),
                                     !.read_epoch = epoch, !.read_at = now]]
    /\ UNCHANGED <<campaigns, ledgerVars, fc, cache, now, epoch, nGets>>

\* the cache write storing only the first campaign of the list
StoreCacheFirstOnly(r) ==
    /\ req[r].pc = "set"
    /\ cache' = IF PyTruthy(req[r].list)
                THEN [present |-> TRUE,
                      val |-> JsonDumps(PyList(FirstN(req[r].list.v, 1))),
                      expires_at |-> now + CacheTTL,
                      read_epoch |-> req[r].read_epoch, read_at |-> req[r].read_at]
                ELSE cache
    /\ req' = [req EXCEPT ![r] = [@ EXCEPT !.pc = "returned", !.hit = FALSE,
                                     !.result = req[r].list,
                                     !.result_epoch = req[r].read_epoch,
                                     !.result_read_at = req[r].read_at]]
    /\ UNCHANGED <<campaigns, ledgerVars, fc, now, epoch, nGets>>

\* if campaign_list: await redis_client.set(key, json_dumps(list), ttl=300)
StoreCache(r) ==
    /\ req[r].pc = "set"
    /\ cache' = IF PyTruthy(req[r].list)
                THEN [present |-> TRUE, val |-> JsonDumps(req[r].list),
                      expires_at |-> now + CacheTTL,
                      read_epoch |-> req[r].read_epoch, read_at |-> req[r].read_at]
                ELSE cache
    /\ req' = [req EXCEPT ![r] = [@ EXCEPT !.pc = "returned", !.hit = FALSE,
                                     !.result = req[r].list,
                                     !.result_epoch = req[r].read_epoch,
                                     !.result_read_at = req[r].read_at]]
    /\ UNCHANGED <<campaigns, ledgerVars, fc, now, epoch, nGets>>

\* the caller has consumed the snapshot
GetEnd(r) ==
    /\ req[r].pc = "returned"
    /\ req' = [req EXCEPT ![r] = IdleRequest]
    /\ UNCHANGED <<campaigns, ledgerVars, fc, cache, now, epoch, nGets>>

\* refresh(): await redis_client.delete(cache_key)
Refresh ==
    /\ epoch < MaxRefresh
    /\ cache' = EmptyCache
    /\ epoch' = epoch + 1
    /\ UNCHANGED <<campaigns, ledgerVars, fc, req, now, nGets>>

\* the management surface changes the status of a campaign
SetStatus(c, status) ==
    /\ campaigns[c].status # status
    /\ campaigns' = [campaigns EXCEPT ![c].status = status]
    /\ UNCHANGED <<ledgerVars, fc, cache, req, now, epoch, nGets>>

\* the management surface changes the status of a creative
SetCreativeStatus(c, i, status) ==
    /\ campaigns[c].creatives[i].status # status
    /\ campaigns' = [campaigns EXCEPT ![c].creatives[i].status = status]
    /\ UNCHANGED <<ledgerVars, fc, cache, req, now, epoch, nGets>>

Tick ==
    /\ now < MaxTime
    /\ now' = now + TickSeconds
    /\ UNCHANGED <<campaigns, ledgerVars, fc, cache, req, epoch, nGets>>

ManagedCampaigns == {1}

NextCache ==
    \/ \E r \in Requests : GetBegin(r) /\ UNCHANGED lastGet
    \/ \E r \in Requests : GetCached(r) /\ UNCHANGED lastGet
    \/ \E r \in Requests : QueryStore(r) /\ UNCHANGED lastGet
    \/ \E r \in Requests : StoreCache(r) /\ UNCHANGED lastGet
    \/ \E r \in Requests : GetEnd(r) /\ UNCHANGED lastGet
    \/ Refresh /\ UNCHANGED lastGet
    \/ \E c \in ManagedCampaigns, status \in {ACTIVE, PAUSED} :
          SetStatus(c, status) /\ UNCHANGED lastGet
    \/ Tick /\ UNCHANGED lastGet

\* campaign 1 is active and is paused and resumed by its owner; campaign 2
\* stays paused
InitCache ==
    /\ campaigns = (1 :> PaidCampaign)
                    @@ (2 :> [HouseCampaign EXCEPT !.status = PAUSED])
    /\ InitRest

SpecCache == InitCache /\ [][NextCache]_vars

\* ------------------------------------- the cache, one call at a time
US == <<"U", "S">>

\* campaign 1 has an active and a paused creative and a geo rule; campaign 2
\* is a house ad; campaign 1 and its second creative are paused and resumed
\* by the management surface
InitCacheSeq ==
    /\ campaigns =
          (1 :> [PaidCampaign EXCEPT
                   !.creatives = <<CreativeRow(1, ACTIVE, PyInt(300), PyInt(250)),
                                   CreativeRow(2, PAUSED, PyInt(728), PyInt(90))>>,
                   !.targeting_rules =
                       <<RuleRow(<<"g", "e", "o">>,
                                 DictOf(<< <<"countries", PyList(<<PyStr(US)>>)>> >>),
                                 TRUE)>>])
          @@ (2 :> HouseCampaign)
    /\ InitRest

\* the call of request 1 returns in this step: what lastGet holds after it
GetReturned ==
    [done |-> TRUE, result |-> req'[1].result, hit |-> req'[1].hit,
     until |-> IF req'[1].hit THEN cache.expires_at ELSE now + CacheTTL,
     dirty |-> lastGet.dirty, prev_ok |-> FALSE,
     prev |-> IF lastGet.prev_ok /\ ~lastGet.dirty /\ now < lastGet.until
              THEN Id([result |-> lastGet.result, hit |-> lastGet.hit])
              ELSE NoId]

\* a write to the store, or invalidate(), since the latest call began
Disturbed == [lastGet EXCEPT !.dirty = TRUE]

\* cache invalidations in a run of calls made one at a time
MaxSeqRefresh == 1

NextCacheSeq ==
    \/ /\ GetBegin(1)
       /\ lastGet' = [lastGet EXCEPT !.prev_ok = lastGet.done /\ ~lastGet.dirty,
                                      !.dirty = FALSE]
    \/ /\ GetCached(1)
       /\ lastGet' = IF req'[1].pc = "returned" THEN GetReturned ELSE lastGet
    \/ QueryStore(1) /\ UNCHANGED lastGet
    \/ StoreCache(1) /\ lastGet' = GetReturned
    \/ GetEnd(1) /\ UNCHANGED lastGet
    \/ epoch < MaxSeqRefresh /\ Refresh /\ lastGet' = Disturbed
    \/ \E c \in ManagedCampaigns, status \in {ACTIVE, PAUSED} :
          SetStatus(c, status) /\ lastGet' = Disturbed
    \/ \E c \in ManagedCampaigns, status \in {ACTIVE, PAUSED} :
          SetCreativeStatus(c, 2, status) /\ lastGet' = Disturbed
    \/ Tick /\ UNCHANGED lastGet

SpecCacheSeq == InitCacheSeq /\ [][NextCacheSeq]_vars

\* -------------------------------------------------------- rule matcher
UpperChar(ch) ==
    IF \E i \in 1..26 : LowerCase[i] = ch
    THEN UpperCase[CHOOSE i \in 1..26 : LowerCase[i] = ch]
    ELSE ch

\* str.upper()
Upper(s) == [i \in 1..Len(s) |-> UpperChar(s[i])]

\* sub in s, for strings
Contains(s, sub) ==
    \E i \in 0..(Len(s) - Len(sub)) : SubSeq(s, i + 1, i + Len(sub)) = sub

\* x in list
InList(x, list) == \E i \in 1..Len(list) : list[i] = x

LowerAll(list) == [i \in 1..Len(list) |-> Lower(list[i])]
UpperAll(list) == [i \in 1..Len(list) |-> Upper(list[i])]

\* dict.get(key, default)
Get(d, key, default) == IF key \in DOMAIN d THEN d[key] ELSE default

\* truthiness of a str | None attribute: None and "" are falsy
TruthyStr(o) == o # NoId /\ Len(o[1]) > 0

Tablet == <<"t", "a", "b", "l", "e", "t">>
Pad == <<"p", "a", "d">>
Phone == <<"p", "h", "o", "n", "e">>

\* rule_type "age" with "return False" for an unknown age
MatchAgeFailClosed(rule_value, uc) ==
    IF uc.age = NoId THEN FALSE
    ELSE /\ Get(rule_value, "min", 0) <= uc.age[1]
         /\ uc.age[1] <= Get(rule_value, "max", 999)

MatchAge(rule_value, uc) ==
    IF uc.age = NoId THEN TRUE
    ELSE /\ Get(rule_value, "min", 0) <= uc.age[1]
         /\ uc.age[1] <= Get(rule_value, "max", 999)

MatchGender(rule_value, uc) ==
    IF uc.gender = NoId THEN TRUE
    ELSE InList(Lower(uc.gender[1]), LowerAll(Get(rule_value, "values", <<>>)))

MatchGeo(rule_value, uc) ==
    LET countries == Get(rule_value, "countries", <<>>)
        cities == Get(rule_value, "cities", <<>>)
    IN  IF /\ Len(countries) > 0 /\ TruthyStr(uc.country)
           /\ ~InList(Upper(uc.country[1]), UpperAll(countries))
        THEN FALSE
        ELSE IF /\ Len(cities) > 0 /\ TruthyStr(uc.city)
                /\ ~InList(Lower(uc.city[1]), LowerAll(cities))
        THEN FALSE
        ELSE TRUE

MatchDevice(rule_value, uc) ==
    LET device_types == Get(rule_value, "types", <<>>)
    IN  IF TruthyStr(uc.device_model)
        THEN LET model_lower == Lower(uc.device_model[1])
                 device_type == IF Contains(model_lower, Tablet)
                                   \/ Contains(model_lower, Pad)
                                THEN Tablet ELSE Phone
             IN  ~(Len(device_types) > 0 /\ ~InList(device_type, device_types))
        ELSE TRUE

MatchOs(rule_value, uc) ==
    LET os_values == Get(rule_value, "values", <<>>)
    IN  ~(/\ Len(os_values) > 0 /\ TruthyStr(uc.os)
          /\ ~InList(Lower(uc.os[1]), LowerAll(os_values)))

\* the shared shape of "interest" and "app_category": reject only when both
\* lists are non-empty and no target value is among the user's values
MatchAnyOf(targets, users) ==
    ~(/\ Len(targets) > 0 /\ Len(users) > 0
      /\ ~\E i \in 1..Len(targets) : InList(Lower(targets[i]), LowerAll(users)))

MatchInterest(rule_value, uc) ==
    MatchAnyOf(Get(rule_value, "values", <<>>), uc.interests)

MatchAppCategory(rule_value, uc) ==
    MatchAnyOf(Get(rule_value, "values", <<>>), uc.app_categories)

KnownRuleTypes ==
    {"age", "gender", "geo", "device", "os", "interest", "app_category"}

\* _match_rule
MatchRule(rule_type, rule_value, uc) ==
    IF rule_type = "age" THEN MatchAge(rule_value, uc)
    ELSE IF rule_type = "gender" THEN MatchGender(rule_value, uc)
    ELSE IF rule_type = "geo" THEN MatchGeo(rule_value, uc)
    ELSE IF rule_type = "device" THEN MatchDevice(rule_value, uc)
    ELSE IF rule_type = "os" THEN MatchOs(rule_value, uc)
    ELSE IF rule_type = "interest" THEN MatchInterest(rule_value, uc)
    ELSE IF rule_type = "app_category" THEN MatchAppCategory(rule_value, uc)
    ELSE TRUE

\* _match_targeting looking at include rules only
RECURSIVE MatchTargetingIncludeOnly(_, _)
MatchTargetingIncludeOnly(targeting_rules, uc) ==
    IF Len(targeting_rules) = 0 THEN TRUE
    ELSE LET rule == Head(targeting_rules)
             matched == MatchRule(rule.rule_type, rule.rule_value, uc)
         IN  IF rule.is_include /\ ~matched THEN FALSE
             ELSE MatchTargetingIncludeOnly(Tail(targeting_rules), uc)

\* _match_targeting: the loop returns False at the first failing rule
RECURSIVE MatchTargeting(_, _)
MatchTargeting(targeting_rules, uc) ==
    IF Len(targeting_rules) = 0 THEN TRUE
    ELSE LET rule == Head(targeting_rules)
             matched == MatchRule(rule.rule_type, rule.rule_value, uc)
         IN  IF rule.is_include /\ ~matched THEN FALSE
             ELSE IF ~rule.is_include /\ matched THEN FALSE
             ELSE MatchTargeting(Tail(targeting_rules), uc)

\* ------------------------------------------------- domain targeting
StartsWith(s, prefix) ==
    Len(s) >= Len(prefix) /\ SubSeq(s, 1, Len(prefix)) = prefix

EndsWith(s, suffix) ==
    Len(s) >= Len(suffix) /\ SubSeq(s, Len(s) - Len(suffix) + 1, Len(s)) = suffix

\* str.strip() for blanks
RECURSIVE Strip(_)
Strip(s) ==
    IF Len(s) > 0 /\ s[1] = " " THEN Strip(Tail(s))
    ELSE IF Len(s) > 0 /\ s[Len(s)] = " " THEN Strip(SubSeq(s, 1, Len(s) - 1))
    ELSE s

\* "sep".join(parts)
RECURSIVE Join(_, _)
Join(parts, sep) ==
    IF Len(parts) = 0 THEN <<>>
    ELSE IF Len(parts) = 1 THEN parts[1]
    ELSE parts[1] \o sep \o Join(Tail(parts), sep)

IsAlpha(ch) ==
    \E i \in 1..26 : LowerCase[i] = ch \/ UpperCase[i] = ch

\* index of the first character of s at or after position from that is in
\* chars, or Len(s) + 1
FirstOf(s, chars, from) ==
    IF \E i \in from..Len(s) : s[i] \in chars
    THEN CHOOSE i \in from..Len(s) :
             s[i] \in chars /\ \A j \in from..(i - 1) : s[j] \notin chars
    ELSE Len(s) + 1

\* urlparse(url): the text after a leading "scheme:", if there is one
AfterScheme(url) ==
    LET i == FirstOf(url, {":"}, 1)
    IN  IF /\ i > 1 /\ i <= Len(url) /\ IsAlpha(url[1])
           /\ \A j \in 1..(i - 1) :
                  IsAlpha(url[j]) \/ IsDigit(url[j]) \/ url[j] \in {"+", "-", "."}
        THEN SubSeq(url, i + 1, Len(url))
        ELSE url

\* urlparse(url).netloc: what follows "//" up to the first of / ? #
NetLoc(url) ==
    LET rest == AfterScheme(url)
    IN  IF StartsWith(rest, <<"/", "/">>)
        THEN SubSeq(rest, 3, FirstOf(rest, {"/", "?", "#"}, 3) - 1)
        ELSE <<>>

Www == <<"w", "w", "w", ".">>

StripWww(host) == IF StartsWith(host, Www) THEN SubSeq(host, 5, Len(host)) ELSE host

\* _extract_domain: the last two labels of the host, or None
ExtractDomain(url) ==
    IF Len(url) = 0 THEN NoId
    ELSE LET host == StripWww(Lower(NetLoc(url)))
             parts == Split(host, ".")
         IN  IF Len(parts) >= 2
             THEN Id(Join(SubSeq(parts, Len(parts) - 1, Len(parts)), <<".">>))
             ELSE Id(host)

\* target.lower().strip() without a leading "www."
TargetClean(target) == StripWww(Strip(Lower(target)))

\* _match_domain_targeting for target_domains given as a list or None and
\* page_url as a string or None
MatchDomainTargeting(target_domains, page_url) ==
    IF target_domains = NoId \/ Len(target_domains[1]) = 0 THEN TRUE
    ELSE IF page_url = NoId \/ Len(page_url[1]) = 0 THEN TRUE
    ELSE LET page_domain == ExtractDomain(page_url[1])
         IN  IF page_domain = NoId \/ Len(page_domain[1]) = 0 THEN TRUE
             ELSE \E i \in 1..Len(target_domains[1]) :
                      LET target_clean == TargetClean(target_domains[1][i])
                      IN  \/ page_domain[1] = target_clean
                          \/ EndsWith(page_domain[1], <<".">> \o target_clean)

\* --------------------------------------------------- page targeting
\* fnmatch.fnmatch(name, pat) for patterns made of literals, * and ?
RECURSIVE FnMatch(_, _)
FnMatch(name, pat) ==
    IF Len(pat) = 0 THEN Len(name) = 0
    ELSE IF pat[1] = "*"
    THEN \E k \in 0..Len(name) :
             FnMatch(SubSeq(name, k + 1, Len(name)), Tail(pat))
    ELSE /\ Len(name) > 0
         /\ pat[1] = "?" \/ pat[1] = name[1]
         /\ FnMatch(Tail(name), Tail(pat))

AnyMatches(page_url, patterns) ==
    \E i \in 1..Len(patterns) : FnMatch(page_url, patterns[i])

\* _match_page_targeting testing the include patterns before the exclude ones
MatchPageTargetingIncludeFirst(page_targeting, page_url) ==
    IF page_targeting = NoId \/ DOMAIN page_targeting[1] = {} THEN TRUE
    ELSE IF page_url = NoId \/ Len(page_url[1]) = 0 THEN TRUE
    ELSE LET include_patterns == Get(page_targeting[1], "include", <<>>)
             exclude_patterns == Get(page_targeting[1], "exclude", <<>>)
         IN  IF Len(include_patterns) > 0
             THEN AnyMatches(page_url[1], include_patterns)
             ELSE ~AnyMatches(page_url[1], exclude_patterns)

\* _match_page_targeting for page_targeting given as a dict or None
MatchPageTargeting(page_targeting, page_url) ==
    IF page_targeting = NoId \/ DOMAIN page_targeting[1] = {} THEN TRUE
    ELSE IF page_url = NoId \/ Len(page_url[1]) = 0 THEN TRUE
    ELSE LET include_patterns == Get(page_targeting[1], "include", <<>>)
             exclude_patterns == Get(page_targeting[1], "exclude", <<>>)
         IN  IF AnyMatches(page_url[1], exclude_patterns) THEN FALSE
             ELSE IF Len(include_patterns) > 0
             THEN AnyMatches(page_url[1], include_patterns)
             ELSE TRUE

\* --------------------------------------- targeting values as stored
\* The outcome of a check: the bool it returns, or an exception that leaves
\* it (AttributeError or TypeError, which the function does not catch).
Returns(b) == [raised |-> FALSE, val |-> b]
Raises == [raised |-> TRUE, val |-> FALSE]

\* A stored value is a Python value; the content of a stored str is given
\* as the JSON tokens it is made of. The value after the isinstance(.., str)
\* branch: json_loads of a str, the value itself otherwise.
Loaded(stored) ==
    IF stored.t = "str" THEN JsonLoads(stored.v) ELSE Parsed(stored, 0)

\* for target in target_domains: target.lower() raises AttributeError for
\* an element that is not a str
RECURSIVE DomainLoop(_, _)
DomainLoop(targets, page_domain) ==
    IF Len(targets) = 0 THEN Returns(FALSE)
    ELSE IF Head(targets).t # "str" THEN Raises
    ELSE LET target_clean == TargetClean(Head(targets).v)
         IN  IF \/ page_domain = target_clean
                \/ EndsWith(page_domain, <<".">> \o target_clean)
             THEN Returns(TRUE)
             ELSE DomainLoop(Tail(targets), page_domain)

\* _match_domain_targeting for target_domains as the store holds it
MatchStoredDomains(target_domains, page_url) ==
    IF ~PyTruthy(target_domains) THEN Returns(TRUE)
    ELSE IF page_url = NoId \/ Len(page_url[1]) = 0 THEN Returns(TRUE)
    ELSE LET loaded == Loaded(target_domains)
             page_domain == ExtractDomain(page_url[1])
         IN  IF ~loaded.ok THEN Returns(TRUE)
             ELSE IF ~PyTruthy(loaded.val) \/ loaded.val.t # "list"
             THEN Returns(TRUE)
             ELSE IF page_domain = NoId \/ Len(page_domain[1]) = 0
             THEN Returns(TRUE)
             ELSE DomainLoop(loaded.val.v, page_domain[1])

\* iter(value): the items of a list, the characters of a str, nothing for
\* an empty dict; TypeError for None, a bool or a number (a dict with keys
\* is not among the values the patterns are drawn from)
Iterable(pv) == pv.t \in {"list", "str"} \/ (pv.t = "dict" /\ Len(pv.keys) = 0)

Items(pv) ==
    IF pv.t = "list" THEN pv.v
    ELSE IF pv.t = "str" THEN [i \in 1..Len(pv.v) |-> PyStr(<<pv.v[i]>>)]
    ELSE <<>>

\* for pattern in patterns: if fnmatch.fnmatch(page_url, pattern): return
\* found; after the loop the outcome is rest. fnmatch raises TypeError for
\* a pattern that is not a str.
RECURSIVE PatternLoop(_, _, _, _)
PatternLoop(page_url, patterns, found, rest) ==
    IF Len(patterns) = 0 THEN rest
    ELSE IF Head(patterns).t # "str" THEN Raises
    ELSE IF FnMatch(page_url, Head(patterns).v) THEN Returns(found)
    ELSE PatternLoop(page_url, Tail(patterns), found, rest)

\* the part of _match_page_targeting after the exclude loop
IncludePart(page_url, include_patterns) ==
    IF ~PyTruthy(include_patterns) THEN Returns(TRUE)
    ELSE IF ~Iterable(include_patterns) THEN Raises
    ELSE PatternLoop(page_url, Items(include_patterns), TRUE, Returns(FALSE))

\* _match_page_targeting for page_targeting as the store holds it
MatchStoredPage(page_targeting, page_url) ==
    IF ~PyTruthy(page_targeting) THEN Returns(TRUE)
    ELSE IF page_url = NoId \/ Len(page_url[1]) = 0 THEN Returns(TRUE)
    ELSE LET loaded == Loaded(page_targeting)
         IN  IF ~loaded.ok THEN Returns(TRUE)
             ELSE IF ~PyTruthy(loaded.val) \/ loaded.val.t # "dict"
             THEN Returns(TRUE)
             ELSE LET include_patterns == PyGet(loaded.val, "include", PyList(<<>>))
                      exclude_patterns == PyGet(loaded.val, "exclude", PyList(<<>>))
                  IN  IF ~Iterable(exclude_patterns) THEN Raises
                      ELSE PatternLoop(page_url[1], Items(exclude_patterns), FALSE,
                                       IncludePart(page_url[1], include_patterns))

\* retrieve() on a snapshot of one campaign without targeting rules that
\* owns one creative, for a slot_id without dimensions: the page check, then
\* the domain check, then the candidate; an exception of a check leaves
\* retrieve(), which has no handler
RetrieveStored(campaign_id, creative_id, page_targeting, target_domains, page_url) ==
    LET page == MatchStoredPage(page_targeting, page_url)
        domain == MatchStoredDomains(target_domains, page_url)
    IN  IF page.raised THEN [raised |-> TRUE, out |-> <<>>]
        ELSE IF ~page.val THEN [raised |-> FALSE, out |-> <<>>]
        ELSE IF domain.raised THEN [raised |-> TRUE, out |-> <<>>]
        ELSE IF ~domain.val THEN [raised |-> FALSE, out |-> <<>>]
        ELSE [raised |-> FALSE,
              out |-> <<[campaign_id |-> campaign_id, creative_id |-> creative_id]>>]

\* --------------------------------------------------- slot dimensions
\* last index of the run of digits that starts at i
RunEnd(s, i) ==
    CHOOSE j \in i..Len(s) :
        /\ \A k \in i..j : IsDigit(s[k])
        /\ j = Len(s) \/ ~IsDigit(s[j + 1])

\* the positions where (\d+)x(\d+) matches
DimensionStarts(s) ==
    { i \in 1..Len(s) :
        /\ IsDigit(s[i])
        /\ RunEnd(s, i) + 2 <= Len(s)
        /\ s[RunEnd(s, i) + 1] = "x"
        /\ IsDigit(s[RunEnd(s, i) + 2]) }

\* _parse_slot_dimensions: the first match of (\d+)x(\d+), or None
ParseSlotDimensions(slot_id) ==
    IF DimensionStarts(slot_id) = {} THEN NoId
    ELSE LET i == CHOOSE x \in DimensionStarts(slot_id) :
                      \A y \in DimensionStarts(slot_id) : x <= y
             j == RunEnd(slot_id, i)
         IN  Id(<<DigitsVal(SubSeq(slot_id, i, j)),
                  DigitsVal(SubSeq(slot_id, j + 2, RunEnd(slot_id, j + 2)))>>)

\* _creative_matches_slot accepting a creative of the slot's width
CreativeMatchesSlotWidthOnly(creative_data, slot_dimensions) ==
    IF slot_dimensions = NoId THEN TRUE
    ELSE IF creative_data.width = NoId \/ creative_data.height = NoId THEN TRUE
    ELSE creative_data.width[1] = slot_dimensions[1][1]

\* _creative_matches_slot; width and height are <<>> for None
CreativeMatchesSlot(creative_data, slot_dimensions) ==
    IF slot_dimensions = NoId THEN TRUE
    ELSE IF creative_data.width = NoId \/ creative_data.height = NoId THEN TRUE
    ELSE /\ creative_data.width[1] = slot_dimensions[1][1]
         /\ creative_data.height[1] = slot_dimensions[1][2]

\* ------------------------------------------------------------ retrieve
Candidate(campaign_data, creative_data) ==
    [campaign_id |-> campaign_data.id, creative_id |-> creative_data.id,
     is_house_ad |-> Get(campaign_data, "is_house_ad", FALSE),
     width |-> creative_data.width, height |-> creative_data.height]

\* the break test with "or" for "and"
ScanFullEither(acc, limit) ==
    Len(acc.paid) >= limit \/ Len(acc.house) >= limit

\* len(paid_candidates) >= limit and len(house_candidates) >= limit
ScanFull(acc, limit) ==
    Len(acc.paid) >= limit /\ Len(acc.house) >= limit

\* the loop over the creatives of a surviving campaign, with its break
RECURSIVE ScanCreatives(_, _, _, _, _)
ScanCreatives(campaign_data, creatives, slot_dimensions, limit, acc) ==
    IF Len(creatives) = 0 THEN acc
    ELSE IF ~CreativeMatchesSlot(Head(creatives), slot_dimensions)
    THEN ScanCreatives(campaign_data, Tail(creatives), slot_dimensions, limit, acc)
    ELSE LET candidate == Candidate(campaign_data, Head(creatives))
             added == IF candidate.is_house_ad
                      THEN [acc EXCEPT !.house = Append(@, candidate)]
                      ELSE [acc EXCEPT !.paid = Append(@, candidate)]
         IN  IF ScanFull(added, limit) THEN added
             ELSE ScanCreatives(campaign_data, Tail(creatives), slot_dimensions,
                                limit, added)

\* the three campaign-level filters of the loop of retrieve()
Survives(campaign_data, uc, page_url) ==
    /\ MatchTargeting(Get(campaign_data, "targeting_rules", <<>>), uc)
    /\ MatchPageTargeting(Get(campaign_data, "page_targeting", NoId), page_url)
    /\ MatchDomainTargeting(Get(campaign_data, "target_domains", NoId), page_url)

\* the loop over the campaigns of the snapshot, with its break
RECURSIVE ScanCampaigns(_, _, _, _, _, _)
ScanCampaigns(snapshot, uc, slot_dimensions, page_url, limit, acc) ==
    IF Len(snapshot) = 0 THEN acc
    ELSE IF ~Survives(Head(snapshot), uc, page_url)
    THEN ScanCampaigns(Tail(snapshot), uc, slot_dimensions, page_url, limit, acc)
    ELSE LET after == ScanCreatives(Head(snapshot),
                                    Get(Head(snapshot), "creatives", <<>>),
                                    slot_dimensions, limit, acc)
         IN  IF ScanFull(after, limit) THEN [after EXCEPT !.stopped = TRUE]
             ELSE ScanCampaigns(Tail(snapshot), uc, slot_dimensions, page_url,
                                limit, after)

EmptyBuckets == [paid |-> <<>>, house |-> <<>>, stopped |-> FALSE]

\* the two buckets when the loop of retrieve() ends
Buckets(snapshot, uc, slot_id, limit, page_url) ==
    ScanCampaigns(snapshot, uc, ParseSlotDimensions(slot_id), page_url, limit,
                  EmptyBuckets)

\* retrieve() returning the house bucket when it is not empty
RetrieveHouseFirst(snapshot, uc, slot_id, limit, page_url) ==
    IF Len(snapshot) = 0 THEN <<>>
    ELSE LET acc == Buckets(snapshot, uc, slot_id, limit, page_url)
         IN  IF Len(acc.house) > 0 THEN FirstN(acc.house, limit)
             ELSE IF Len(acc.paid) > 0 THEN FirstN(acc.paid, limit)
             ELSE <<>>

\* retrieve(user_context, slot_id, limit, page_url=...) on the snapshot that
\* _get_active_campaigns returned, for limit >= 0
Retrieve(snapshot, uc, slot_id, limit, page_url) ==
    IF Len(snapshot) = 0 THEN <<>>
    ELSE LET acc == Buckets(snapshot, uc, slot_id, limit, page_url)
         IN  IF Len(acc.paid) > 0 THEN FirstN(acc.paid, limit)
             ELSE IF Len(acc.house) > 0 THEN FirstN(acc.house, limit)
             ELSE <<>>

\* ------------------------------------- synchronous functions, any input
\* everything but the record of the function application
fnFrame == <<campaigns, ledgerVars, cacheVars>>

\* largest campaign_id and creative_id of an issued ad_id
MaxId == 12

\* request_ads issues ad_id for the candidate (c, r); _parse_ad_id reads it
ParseIssuedAdId(c, r) ==
    /\ fc.fn = "none"
    /\ fc' = [fn |-> "parse", legacy |-> FALSE, c |-> c, r |-> r,
              ad_id |-> FormatAdId(c, r), out |-> ParseAdId(FormatAdId(c, r))]
    /\ UNCHANGED fnFrame

\* the legacy encoding ad_{campaign_id}_{creative_id}
LegacyAdId(c, r) == <<"a", "d", "_">> \o FormatAdId(c, r)

ParseLegacyAdId(c, r) ==
    /\ fc.fn = "none"
    /\ fc' = [fn |-> "parse", legacy |-> TRUE, c |-> c, r |-> r,
              ad_id |-> LegacyAdId(c, r), out |-> ParseAdId(LegacyAdId(c, r))]
    /\ UNCHANGED fnFrame

\* user contexts: nothing known, two full profiles, and partial ones
NoContext ==
    [age |-> NoId, gender |-> NoId, country |-> NoId, city |-> NoId,
     device_model |-> NoId, os |-> NoId, interests |-> <<>>,
     app_categories |-> <<>>]

FnContexts ==
    { NoContext,
      [age |-> Id(30), gender |-> Id(<<"F">>), country |-> Id(<<"u", "s">>),
       city |-> Id(<<"N", "Y">>), device_model |-> Id(<<"i", "P", "a", "d">>),
       os |-> Id(<<"i", "O", "S">>), interests |-> << <<"G", "o", "l", "f">> >>,
       app_categories |-> << <<"n", "e", "w", "s">> >>],
      [age |-> Id(70), gender |-> Id(<<"m">>), country |-> Id(<<"D", "E">>),
       city |-> Id(<<"u", "l", "m">>), device_model |-> Id(<<"P", "i", "x">>),
       os |-> Id(<<"a", "n", "d">>), interests |-> << <<"c", "h", "e", "s", "s">> >>,
       app_categories |-> << <<"g", "a", "m", "e">> >>],
      [NoContext EXCEPT !.age = Id(0), !.country = Id(<<"U", "S">>)],
      [NoContext EXCEPT !.city = Id(<<"u", "l", "m">>), !.country = Id(<<>>)],
      [NoContext EXCEPT !.gender = Id(<<"f">>), !.os = Id(<<"I", "O", "S">>)] }

\* rule_value dicts of every rule shape, the empty dict among them
FnRuleValues ==
    { <<>>,
      [min |-> 18, max |-> 65],
      [min |-> 18],
      [values |-> << <<"f">> >>],
      [values |-> << <<"i", "o", "s">>, <<"g", "o", "l", "f">>, <<"N", "e", "w", "s">> >>],
      [values |-> <<>>],
      [countries |-> << <<"U", "S">> >>, cities |-> << <<"n", "y">> >>],
      [countries |-> << <<"u", "s">> >>],
      [types |-> <<Tablet>>] }

FnRuleTypes == KnownRuleTypes \cup {"weather", ""}

\* _match_rule(rule_type, rule_value, user_context)
MatchRuleCall(rule_type, rule_value, uc) ==
    /\ fc.fn = "none"
    /\ fc' = [fn |-> "match_rule", rule_type |-> rule_type,
              rule_value |-> rule_value, uc |-> uc,
              out |-> MatchRule(rule_type, rule_value, uc)]
    /\ UNCHANGED fnFrame

\* longest targeting_rules list of a campaign
MaxRules == 2

TargetingRule(rule_type, rule_value, is_include) ==
    [rule_type |-> rule_type, rule_value |-> rule_value, is_include |-> is_include]

FnTargetingRules ==
    { TargetingRule(t[1], t[2], inc) :
        t \in { <<"age", [min |-> 18, max |-> 65]>>,
                <<"geo", [countries |-> << <<"U", "S">> >>]>>,
                <<"device", [types |-> <<Tablet>>]>>,
                <<"os", [values |-> << <<"i", "o", "s">> >>]>>,
                <<"weather", [values |-> << <<"r", "a", "i", "n">> >>]>> },
        inc \in BOOLEAN }

\* every list of at most n rules
RECURSIVE RuleLists(_)
RuleLists(n) ==
    IF n = 0 THEN {<<>>}
    ELSE RuleLists(n - 1) \cup
         { <<r>> \o l : r \in FnTargetingRules,
                        l \in {x \in RuleLists(n - 1) : Len(x) = n - 1} }

\* _match_targeting(campaign_data, user_context)
MatchTargetingCall(targeting_rules, uc) ==
    /\ fc.fn = "none"
    /\ fc' = [fn |-> "match_targeting", targeting_rules |-> targeting_rules,
              uc |-> uc, out |-> MatchTargeting(targeting_rules, uc)]
    /\ UNCHANGED fnFrame

\* page URLs: https://blog.ex.com/x, https://notex.com, https://www.ex.com/,
\* https://EX.com?q, ex.com/x (no scheme), https://a.blog.ex.com#f
UrlBlog == <<"h", "t", "t", "p", "s", ":", "/", "/", "b", "l", "o", "g", ".", "e", "x", ".", "c", "o", "m", "/", "x">>
UrlNotEx == <<"h", "t", "t", "p", "s", ":", "/", "/", "n", "o", "t", "e", "x", ".", "c", "o", "m">>
UrlWww == <<"h", "t", "t", "p", "s", ":", "/", "/", "w", "w", "w", ".", "e", "x", ".", "c", "o", "m", "/">>
UrlUpper == <<"h", "t", "t", "p", "s", ":", "/", "/", "E", "X", ".", "c", "o", "m", "?", "q">>
UrlNoScheme == <<"e", "x", ".", "c", "o", "m", "/", "x">>
UrlDeep == <<"h", "t", "t", "p", "s", ":", "/", "/", "a", ".", "b", "l", "o", "g", ".", "e", "x", ".", "c", "o", "m", "#", "f">>

FnPageUrls ==
    { NoId, Id(<<>>), Id(UrlBlog), Id(UrlNotEx), Id(UrlWww), Id(UrlUpper),
      Id(UrlNoScheme), Id(UrlDeep) }

\* domains: ex.com, blog.ex.com, www.ex.com, " EX.com ", other.org
DomEx == <<"e", "x", ".", "c", "o", "m">>
DomBlog == <<"b", "l", "o", "g", ".", "e", "x", ".", "c", "o", "m">>
DomWww == <<"w", "w", "w", ".", "e", "x", ".", "c", "o", "m">>
DomBlanks == <<" ", "E", "X", ".", "c", "o", "m", " ">>
DomOther == <<"o", "t", "h", "e", "r", ".", "o", "r", "g">>

FnTargetDomains ==
    { NoId, Id(<<>>), Id(<<DomEx>>), Id(<<DomBlog>>), Id(<<DomWww>>),
      Id(<<DomBlanks>>), Id(<<DomOther, DomEx>>), Id(<<DomOther>>) }

\* _match_domain_targeting(target_domains, page_url)
MatchDomainTargetingCall(target_domains, page_url) ==
    /\ fc.fn = "none"
    /\ fc' = [fn |-> "match_domain", target_domains |-> target_domains,
              page_url |-> page_url,
              out |-> MatchDomainTargeting(target_domains, page_url)]
    /\ UNCHANGED fnFrame

\* glob patterns: *, */x, https://blog.*, *ex.com*, https://notex.co?, and
\* the empty pattern
PatAll == <<"*">>
PatSlashX == <<"*", "/", "x">>
PatBlog == <<"h", "t", "t", "p", "s", ":", "/", "/", "b", "l", "o", "g", ".", "*">>
PatEx == <<"*", "e", "x", ".", "c", "o", "m", "*">>
PatNotEx == <<"h", "t", "t", "p", "s", ":", "/", "/", "n", "o", "t", "e", "x", ".", "c", "o", "?">>

FnPatternLists ==
    { <<>>, <<PatAll>>, <<PatSlashX>>, <<PatBlog>>, <<PatEx>>, <<PatNotEx>>,
      <<PatNotEx, PatBlog>>, << <<>> >> }

\* page_targeting dicts: None, {}, and include/exclude lists, either key
\* possibly missing
FnPageTargetings ==
    { NoId, Id(<<>>) }
    \cup { Id([include |-> inc, exclude |-> exc]) :
             inc \in FnPatternLists, exc \in FnPatternLists }
    \cup { Id([include |-> inc]) : inc \in FnPatternLists }
    \cup { Id([exclude |-> exc]) : exc \in FnPatternLists }

\* _match_page_targeting(campaign_data, page_url)
MatchPageTargetingCall(page_targeting, page_url) ==
    /\ fc.fn = "none"
    /\ fc' = [fn |-> "match_page", page_targeting |-> page_targeting,
              page_url |-> page_url,
              out |-> MatchPageTargeting(page_targeting, page_url)]
    /\ UNCHANGED fnFrame

\* a creative of the snapshot; width and height are <<>> for None
CreativeData(id, width, height) == [id |-> id, width |-> width, height |-> height]

\* a campaign of the snapshot (campaign_data)
SnapshotCampaign(id, is_house_ad, targeting_rules, page_targeting, target_domains, creatives) ==
    [id |-> id, is_house_ad |-> is_house_ad, targeting_rules |-> targeting_rules,
     page_targeting |-> page_targeting, target_domains |-> target_domains,
     creatives |-> creatives]

\* 1: paid, untargeted, four creatives; 2: paid, for US users; 3: house,
\* two creatives; 4: house, for pages of ex.com; 5: paid, not on pages */x,
\* its creative without a height
FnCampaigns ==
    { SnapshotCampaign(1, FALSE, <<>>, NoId, NoId,
          <<CreativeData(1, Id(728), Id(90)), CreativeData(2, Id(300), Id(250)),
            CreativeData(3, NoId, NoId), CreativeData(4, Id(728), Id(250))>>),
      SnapshotCampaign(2, FALSE,
          <<TargetingRule("geo", [countries |-> << <<"U", "S">> >>], TRUE)>>,
          NoId, NoId, <<CreativeData(1, Id(728), Id(90))>>),
      SnapshotCampaign(3, TRUE, <<>>, NoId, NoId,
          <<CreativeData(1, Id(728), Id(90)), CreativeData(2, Id(728), Id(90))>>),
      SnapshotCampaign(4, TRUE, <<>>, NoId, Id(<<DomEx>>),
          <<CreativeData(1, Id(300), Id(250))>>),
      SnapshotCampaign(5, FALSE, <<>>, Id([exclude |-> <<PatSlashX>>]), NoId,
          <<CreativeData(1, Id(728), NoId)>>) }

\* longest snapshot, and largest limit
MaxCampaigns == 2
MaxLimit == 2

\* every snapshot of at most n campaigns
RECURSIVE Snapshots(_)
Snapshots(n) ==
    IF n = 0 THEN {<<>>}
    ELSE Snapshots(n - 1) \cup
         { <<c>> \o l : c \in FnCampaigns,
                        l \in {x \in Snapshots(n - 1) : Len(x) = n - 1} }

RetrieveContexts == {NoContext, [NoContext EXCEPT !.country = Id(<<"D", "E">>)]}

\* slot ids: lb-728x90, banner, 300x250, 728x, 12x3x250
FnSlotIds ==
    { <<"l", "b", "-", "7", "2", "8", "x", "9", "0">>, <<"b", "a", "n", "n", "e", "r">>, <<"3", "0", "0", "x", "2", "5", "0">>, <<"7", "2", "8", "x">>, <<"1", "2", "x", "3", "x", "2", "5", "0">> }

RetrievePageUrls == {NoId, Id(UrlBlog), Id(UrlNotEx)}

\* retrieve(user_context, slot_id, limit, page_url=page_url), after
\* _get_active_campaigns has returned the snapshot
RetrieveCall(snapshot, uc, slot_id, limit, page_url) ==
    /\ fc.fn = "none"
    /\ fc' = [fn |-> "retrieve", snapshot |-> snapshot, uc |-> uc,
              slot_id |-> slot_id, limit |-> limit, page_url |-> page_url,
              buckets |-> IF Len(snapshot) = 0 THEN EmptyBuckets
                          ELSE Buckets(snapshot, uc, slot_id, limit, page_url),
              out |-> Retrieve(snapshot, uc, slot_id, limit, page_url)]
    /\ UNCHANGED fnFrame


\* stored target_domains: None, "", a text that is no JSON, a text cut
\* short, ["ex.com"] as a text and as a list, and the wrong shapes 5,
\* {"a": 1}, "ex.com", [5], ["ex.com", null]
NotJson == <<Tok("bad", 0)>>
CutShort == <<Punct("["), Tok("str", DomEx)>>

StoredTargetDomains ==
    { PyNone, PyStr(<<>>), PyStr(NotJson), PyStr(CutShort),
      PyStr(JsonDumps(PyList(<<PyStr(DomEx)>>))), PyList(<<PyStr(DomEx)>>),
      PyStr(JsonDumps(PyInt(5))), PyInt(5),
      PyStr(JsonDumps(DictOf(<< <<"a", PyInt(1)>> >>))),
      PyStr(JsonDumps(PyStr(DomEx))),
      PyStr(JsonDumps(PyList(<<PyInt(5)>>))),
      PyList(<<PyStr(DomEx), PyNone>>) }

\* stored page_targeting: None, "", a text that is no JSON, {}, an exclude
\* and an include list as a text and as a dict, and the wrong shapes
\* ["*"], {"exclude": 5}, {"exclude": null}, {"include": "ex.com"},
\* {"exclude": [5]}, {"include": ["*", 5]}
StoredPageTargetings ==
    { PyNone, PyStr(<<>>), PyStr(NotJson), DictOf(<<>>),
      PyStr(JsonDumps(DictOf(<< <<"exclude", PyList(<<PyStr(PatBlog)>>)>> >>))),
      DictOf(<< <<"include", PyList(<<PyStr(PatBlog)>>)>> >>),
      PyStr(JsonDumps(PyList(<<PyStr(PatAll)>>))),
      PyStr(JsonDumps(DictOf(<< <<"exclude", PyInt(5)>> >>))),
      DictOf(<< <<"exclude", PyNone>> >>),
      PyStr(JsonDumps(DictOf(<< <<"include", PyStr(DomEx)>> >>))),
      PyStr(JsonDumps(DictOf(<< <<"exclude", PyList(<<PyInt(5)>>)>> >>))),
      DictOf(<< <<"include", PyList(<<PyStr(PatAll), PyInt(5)>>)>> >>) }

\* retrieve(user_context, "banner", page_url=page_url) on the snapshot of
\* campaign 1 holding the stored page_targeting and target_domains
RetrieveStoredCall(page_targeting, target_domains, page_url) ==
    /\ fc.fn = "none"
    /\ fc' = [fn |-> "retrieve_stored", page_targeting |-> page_targeting,
              target_domains |-> target_domains, page_url |-> page_url,
              page |-> MatchStoredPage(page_targeting, page_url),
              domain |-> MatchStoredDomains(target_domains, page_url),
              out |-> RetrieveStored(1, CreativeOf(1), page_targeting,
                                     target_domains, page_url)]
    /\ UNCHANGED fnFrame

InitFn ==
    /\ campaigns = (1 :> PaidCampaign) @@ (2 :> HouseCampaign)
    /\ InitRest

\* one application per behaviour: every call starts from the initial state
NextFn ==
    /\ fc.fn = "none"
    /\ \/ \E c \in 0..MaxId, r \in 0..MaxId : ParseIssuedAdId(c, r)
       \/ \E c \in 0..MaxId, r \in 0..MaxId : ParseLegacyAdId(c, r)
       \/ \E rule_type \in FnRuleTypes, rule_value \in FnRuleValues, uc \in FnContexts :
             MatchRuleCall(rule_type, rule_value, uc)
       \/ \E targeting_rules \in RuleLists(MaxRules), uc \in FnContexts :
             MatchTargetingCall(targeting_rules, uc)
       \/ \E target_domains \in FnTargetDomains, page_url \in FnPageUrls :
             MatchDomainTargetingCall(target_domains, page_url)
       \/ \E page_targeting \in FnPageTargetings, page_url \in FnPageUrls :
             MatchPageTargetingCall(page_targeting, page_url)
       \/ \E snapshot \in Snapshots(MaxCampaigns), uc \in RetrieveContexts,
             slot_id \in FnSlotIds, limit \in 0..MaxLimit,
             page_url \in RetrievePageUrls :
             RetrieveCall(snapshot, uc, slot_id, limit, page_url)
       \/ \E page_targeting \in StoredPageTargetings,
             target_domains \in StoredTargetDomains, page_url \in RetrievePageUrls :
             RetrieveStoredCall(page_targeting, target_domains, page_url)

SpecFn == InitFn /\ [][NextFn]_vars

\* ====================================================== the properties
RECURSIVE SumCosts(_, _)
SumCosts(rows, bag) ==
    IF rows = {} THEN 0
    ELSE LET e == CHOOSE x \in rows : TRUE
         IN  e.cost * CopiesIn(e, bag) + SumCosts(rows \ {e}, bag)

\* the sum of the cost fields of the committed AdEvents of campaign c
EventCosts(c) ==
    SumCosts({e \in BagToSet(events) : e.campaign_id = Id(c)}, events)

Quiescent == \A s \in Sessions : sess[s].pc = "idle"

\* C1: once all concurrent track_event calls for a campaign have completed
\* successfully, spent_today and spent_total have grown by the sum of the
\* costs of their events.
C1_NoLostUpdate ==
    Quiescent /\ ~failed =>
        \A c \in CampaignIds :
            /\ campaigns[c].spent_today = EventCosts(c)
            /\ campaigns[c].spent_total = EventCosts(c)

\* C2: a user never receives more than freq_cap_daily admitted impressions
\* of a campaign, when each impression is reported through the impression
\* URL that was issued with it.
C2_DailyCapRespected ==
    \A u \in Users, c \in CampaignIds :
        campaigns[c].freq_cap_daily > 0
            => admitted[<<u, c>>] <= campaigns[c].freq_cap_daily

\* C3: a get_active_campaigns() call that starts after a refresh() has
\* completed never returns a snapshot built from store state that was read
\* before that refresh().
C3_InvalidateTakesEffect ==
    \A r \in Requests :
        req[r].pc = "returned" => req[r].result_epoch >= req[r].start_epoch

\* C4: once spent_today >= budget_daily admission rejects the campaign, and
\* spent_today never exceeds budget_daily by more than the cost of one event
\* (stated for the runs in which every track_event call has returned True).
C4_BudgetBound ==
    \A c \in CampaignIds :
        ~failed /\ campaigns[c].budget_daily > 0 /\ ~campaigns[c].is_house_ad =>
            /\ campaigns[c].spent_today >= campaigns[c].budget_daily
                  => ~BudgetAdmits(c)
            /\ campaigns[c].spent_today
                  <= campaigns[c].budget_daily + campaigns[c].bid_amount \div 1000

\* C5: a track_event call that returned False has left no effect once its
\* caller has committed: no AdEvent, no spend, no stat or frequency counter.
C5_FailureLeavesNoEffect ==
    [][\A s \in Sessions :
          sess[s].pc = "returned" /\ ~sess[s].result /\ sess'[s].pc = "idle"
              => /\ events' = events
                 /\ campaigns' = campaigns
                 /\ ~sess[s].touched]_vars

C6_Aliases ==
    { <<"i", "m", "p", "r", "e", "s", "s", "i", "o", "n">>, <<"i", "m", "p">>, <<"v">>,
      <<"c", "l", "i", "c", "k">>, <<"c", "l", "k">>, <<"c">>,
      <<"c", "o", "n", "v", "e", "r", "s", "i", "o", "n">>, <<"c", "o", "n", "v">>,
      <<"x">> }

\* C6: track_event with an event_type that is none of the nine aliases
\* (case-insensitively) returns False and changes no AdEvent, spend, stat or
\* frequency counter.
C6_UnknownTypeRejected ==
    seqCall.phase # "none" /\ Lower(seqCall.event_type) \notin C6_Aliases =>
        /\ Observable = seqCall.pre
        /\ sess[1].pc \in {"returned", "idle"}
        /\ sess[1].pc = "returned" => ~sess[1].result /\ ~sess[1].flushed
        /\ seqCall.phase = "finished" => ~seqCall.result

C6_Witness ==
    /\ seqCall.phase = "finished"
    /\ Lower(seqCall.event_type) \notin C6_Aliases
    /\ ~seqCall.result

C7_Charge(bid_type, event_type, bid_amount, is_house_ad) ==
    CASE is_house_ad -> 0
      [] ~is_house_ad /\ bid_type \in {CPM, OCPM} /\ event_type = IMPRESSION
            -> bid_amount \div 1000
      [] ~is_house_ad /\ bid_type = CPC /\ event_type = CLICK -> bid_amount
      [] ~is_house_ad /\ bid_type = CPA /\ event_type = CONVERSION -> bid_amount
      [] OTHER -> 0

SeqCallHitsCampaign ==
    /\ seqCall.phase = "finished"
    /\ seqCall.campaign_id # NoId
    /\ seqCall.campaign_id[1] \in DOMAIN campaigns

\* C7: the cost of a tracked event is the charge given by (bid_type,
\* event_type, bid_amount, is_house_ad), both spends grow by it, and a call
\* changes the campaign's spend only when that charge is > 0.
C7_CostRule ==
    SeqCallHitsCampaign =>
        LET c == seqCall.campaign_id[1]
            old == seqCall.pre.campaigns[c]
            charge == C7_Charge(old.bid_type, seqCall.etype, old.bid_amount,
                                old.is_house_ad)
        IN  /\ seqCall.result =>
                 /\ seqCall.cost = charge
                 /\ campaigns[c].spent_today = old.spent_today + charge
                 /\ campaigns[c].spent_total = old.spent_total + charge
            /\ campaigns # seqCall.pre.campaigns =>
                 /\ seqCall.etype # None
                 /\ charge > 0
                 /\ campaigns = [seqCall.pre.campaigns EXCEPT
                                    ![c].spent_today = @ + charge,
                                    ![c].spent_total = @ + charge]

C7_Witness ==
    /\ SeqCallHitsCampaign
    /\ seqCall.result
    /\ seqCall.cost = 2000
    /\ campaigns[1].spent_today = seqCall.pre.campaigns[1].spent_today + 2000

\* C8: spent_today and spent_total are never negative and no step of the
\* ledger lowers them (the second part stated for the steps of runs in which
\* every track_event call has returned True).
C8_SpendNeverLowered ==
    /\ [](\A c \in CampaignIds :
              campaigns[c].spent_today >= 0 /\ campaigns[c].spent_total >= 0)
    /\ [][~failed' =>
            \A c \in CampaignIds :
              /\ campaigns'[c].spent_today >= campaigns[c].spent_today
              /\ campaigns'[c].spent_total >= campaigns[c].spent_total]_vars

C9_UnparseableAdIds ==
    { <<"a", "d", "_", "5">>, <<"x", "_", "1">>, <<>> }

C10_AbsentCampaignAdId == <<"3", "_", "1">>

C11_AdIdRoundTrip ==
    fc.fn = "parse" => fc.out = <<Id(fc.c), Id(fc.r)>>

C11_Witness ==
    /\ fc.fn = "parse"
    /\ fc.legacy
    /\ fc.ad_id = <<"a", "d", "_", "1", "0", "_", "7">>
    /\ fc.out = <<Id(10), Id(7)>>

\* the targeting_rules list without its i-th rule
WithoutRule(rules, i) == SubSeq(rules, 1, i - 1) \o SubSeq(rules, i + 1, Len(rules))

\* C12: a rule of unknown rule_type never blocks: a campaign that passes
\* targeting without the rule passes with it, whatever its is_include flag.
C12_UnknownRuleNeverBlocks ==
    fc.fn = "match_targeting" =>
        \A i \in 1..Len(fc.targeting_rules) :
            /\ fc.targeting_rules[i].rule_type \notin KnownRuleTypes
            /\ MatchTargeting(WithoutRule(fc.targeting_rules, i), fc.uc)
            => fc.out

\* the attributes a rule of the given known type reads are all absent
SignalAbsent(rule_type, uc) ==
    CASE rule_type = "age" -> uc.age = NoId
      [] rule_type = "gender" -> uc.gender = NoId
      [] rule_type = "geo" -> uc.country = NoId /\ uc.city = NoId
      [] rule_type = "device" -> uc.device_model = NoId
      [] rule_type = "os" -> uc.os = NoId
      [] rule_type = "interest" -> Len(uc.interests) = 0
      [] rule_type = "app_category" -> Len(uc.app_categories) = 0

\* C13: for a known rule_type and any rule_value, _match_rule returns True
\* when the user attributes that rule reads are absent.
C13_FailOpenOnMissingSignal ==
    /\ fc.fn = "match_rule"
    /\ fc.rule_type \in KnownRuleTypes
    /\ SignalAbsent(fc.rule_type, fc.uc)
    => fc.out

C13_Witness ==
    /\ fc.fn = "match_rule"
    /\ fc.rule_type = "age"
    /\ fc.rule_value = [min |-> 18, max |-> 65]
    /\ fc.uc.age = NoId
    /\ fc.uc.gender # NoId
    /\ fc.out

\* rule i of the list is satisfied: an include rule matched, or an exclude
\* rule did not
RuleSatisfied(rule, uc) ==
    LET matched == MatchRule(rule.rule_type, rule.rule_value, uc)
    IN  (rule.is_include /\ matched) \/ (~rule.is_include /\ ~matched)

\* C14: a campaign passes targeting iff every one of its rules is satisfied;
\* no rules pass, and one failing rule rejects whatever the others and
\* their order.
C14_PassIffEveryRuleSatisfied ==
    fc.fn = "match_targeting" =>
        (fc.out <=> \A i \in 1..Len(fc.targeting_rules) :
                        RuleSatisfied(fc.targeting_rules[i], fc.uc))

C14_Witness ==
    /\ fc.fn = "match_targeting"
    /\ Len(fc.targeting_rules) = 2
    /\ RuleSatisfied(fc.targeting_rules[1], fc.uc)
    /\ ~RuleSatisfied(fc.targeting_rules[2], fc.uc)
    /\ ~fc.targeting_rules[2].is_include
    /\ fc.targeting_rules[2].rule_type = "geo"
    /\ ~fc.out

\* the host of the page URL, lower-cased, without a leading "www."
C17_Host(page_url) == StripWww(Lower(NetLoc(page_url)))

\* C17: with a non-empty target_domains list and a page URL, the campaign
\* passes domain targeting iff the page URL's host (leading "www." stripped)
\* equals an entry of target_domains or is a subdomain of one; when either
\* side is absent it passes.
C17_DomainTargeting ==
    fc.fn = "match_domain" =>
        IF \/ fc.target_domains = NoId \/ Len(fc.target_domains[1]) = 0
           \/ fc.page_url = NoId \/ Len(fc.page_url[1]) = 0
        THEN fc.out
        ELSE Len(C17_Host(fc.page_url[1])) > 0 =>
               (fc.out <=>
                  \E i \in 1..Len(fc.target_domains[1]) :
                     LET target == TargetClean(fc.target_domains[1][i])
                     IN  \/ C17_Host(fc.page_url[1]) = target
                         \/ EndsWith(C17_Host(fc.page_url[1]), <<".">> \o target))

\* C18: with page targeting and a page URL, a matching exclude pattern
\* rejects; otherwise the campaign passes iff there is no include pattern or
\* one of them matches.
C18_PageTargeting ==
    /\ fc.fn = "match_page"
    /\ fc.page_targeting # NoId
    /\ DOMAIN fc.page_targeting[1] # {}
    /\ fc.page_url # NoId
    /\ Len(fc.page_url[1]) > 0
    => LET include == Get(fc.page_targeting[1], "include", <<>>)
           exclude == Get(fc.page_targeting[1], "exclude", <<>>)
       IN  fc.out <=>
             /\ ~AnyMatches(fc.page_url[1], exclude)
             /\ Len(include) = 0 \/ AnyMatches(fc.page_url[1], include)

C18_Witness ==
    /\ fc.fn = "match_page"
    /\ fc.page_url = Id(UrlBlog)
    /\ fc.page_targeting = Id([include |-> <<PatBlog>>, exclude |-> <<PatSlashX>>])
    /\ ~fc.out

\* what the slot_id asks of a creative: whether it holds a
\* "<width>x<height>", and the dimensions parsed from it
SlotConstraint(slot_id) ==
    [constrained |-> \E j \in 1..(Len(slot_id) - 2) :
                        /\ IsDigit(slot_id[j])
                        /\ slot_id[j + 1] = "x"
                        /\ IsDigit(slot_id[j + 2]),
     dimensions |-> ParseSlotDimensions(slot_id)]

\* a creative is compatible with the slot: the slot_id holds no
\* "<width>x<height>", or the creative lacks a width or a height, or both
\* equal the dimensions parsed from the slot_id
Compatible(creative_data, slot) ==
    \/ ~slot.constrained
    \/ creative_data.width = NoId
    \/ creative_data.height = NoId
    \/ /\ slot.dimensions # NoId
       /\ creative_data.width[1] = slot.dimensions[1][1]
       /\ creative_data.height[1] = slot.dimensions[1][2]

\* the candidates that qualify, in snapshot order: one per compatible
\* creative of every campaign that survives targeting
RECURSIVE Qualifying(_, _, _, _)
Qualifying(snapshot, uc, slot, page_url) ==
    IF Len(snapshot) = 0 THEN <<>>
    ELSE LET cd == Head(snapshot)
             fit == SelectSeq(cd.creatives, LAMBDA cr : Compatible(cr, slot))
             own == IF Survives(cd, uc, page_url)
                    THEN [i \in 1..Len(fit) |-> Candidate(cd, fit[i])]
                    ELSE <<>>
         IN  own \o Qualifying(Tail(snapshot), uc, slot, page_url)

\* the qualifying candidates of the recorded call
QualifyingNow ==
    Qualifying(fc.snapshot, fc.uc, SlotConstraint(fc.slot_id), fc.page_url)

PaidOf(q) == SelectSeq(q, LAMBDA c : ~c.is_house_ad)

HouseOf(q) == SelectSeq(q, LAMBDA c : c.is_house_ad)

IsPrefix(p, q) == Len(p) <= Len(q) /\ SubSeq(q, 1, Len(p)) = p

\* C15: retrieve() returns paid candidates when a paid candidate qualifies,
\* else house candidates when one qualifies, else nothing; it never mixes
\* the two and, for limit >= 1, returns something whenever any qualifies.
C15_PaidBeforeHouse ==
    fc.fn = "retrieve" =>
        LET q == QualifyingNow
            paid == PaidOf(q)
        IN  /\ \A i \in 1..Len(fc.out) :
                   /\ fc.out[i].is_house_ad <=> Len(paid) = 0
                   /\ InList(fc.out[i], q)
            /\ fc.limit >= 1 /\ Len(q) > 0 => Len(fc.out) > 0

C15_Witness ==
    /\ fc.fn = "retrieve"
    /\ Len(fc.snapshot) = 2
    /\ ~fc.snapshot[1].is_house_ad
    /\ Len(PaidOf(QualifyingNow)) = 0
    /\ Len(fc.out) = 2
    /\ fc.out[1].is_house_ad

\* C16: the result is the first limit qualifying candidates of the returned
\* bucket, in snapshot order; the early exit of the scan drops none of them.
C16_FirstLimitOfBucket ==
    fc.fn = "retrieve" =>
        LET q == QualifyingNow
            paid == PaidOf(q)
        IN  /\ Len(fc.out) <= fc.limit
            /\ fc.out = FirstN(IF Len(paid) > 0 THEN paid ELSE HouseOf(q),
                               fc.limit)

C16_Witness ==
    /\ fc.fn = "retrieve"
    /\ fc.buckets.stopped
    /\ fc.limit = 2
    /\ Len(PaidOf(QualifyingNow)) > 2
    /\ Len(HouseOf(QualifyingNow)) >= 2
    /\ fc.out = FirstN(PaidOf(QualifyingNow), 2)

\* C19: before truncation the scan has emitted exactly one candidate per
\* compatible creative of every surviving campaign, and none for an
\* incompatible creative; a scan that stops early has emitted the first of
\* them, at least limit in each bucket.
C19_OnePerCompatibleCreative ==
    fc.fn = "retrieve" =>
        LET q == QualifyingNow
            paid == PaidOf(q)
            house == HouseOf(q)
        IN  IF fc.buckets.stopped
            THEN /\ IsPrefix(fc.buckets.paid, paid)
                 /\ IsPrefix(fc.buckets.house, house)
                 /\ Len(fc.buckets.paid) >= fc.limit
                 /\ Len(fc.buckets.house) >= fc.limit
            ELSE /\ fc.buckets.paid = paid
                 /\ fc.buckets.house = house

C19_Witness ==
    /\ fc.fn = "retrieve"
    /\ ~fc.buckets.stopped
    /\ ParseSlotDimensions(fc.slot_id) = Id(<<728, 90>>)
    /\ Len(fc.snapshot) = 1
    /\ fc.snapshot[1].id = 1
    /\ Len(fc.buckets.paid) = 2
    /\ fc.buckets.paid[2].creative_id = 3

\* C20: a get_active_campaigns() call that misses the cache and completes
\* leaves the cache holding the snapshot it rebuilt, expiring 300 s later,
\* for every store content, whatever the number of eligible campaigns.
C20_MissLeavesSnapshotCached ==
    [][\A r \in Requests :
          req[r].pc = "set" /\ req'[r].pc = "returned" =>
              /\ cache'.present
              /\ cache'.val = JsonDumps(req'[r].result)
              /\ cache'.expires_at = now' + CacheTTL]_vars

C22_HitNoOlderThanExpiry ==
    [][\A r \in Requests :
          req[r].pc = "get" /\ req'[r].pc = "returned" =>
              now' - req'[r].result_read_at <= CacheTTL]_vars

StatFields == {"impressions", "clicks", "conversions"}

\* HGET key field, 0 for a missing hash
StatCount(h, key, field) == IF key \in DOMAIN h THEN h[key][field] ELSE 0

SeqCallSucceeded ==
    /\ seqCall.phase = "finished"
    /\ seqCall.result
    /\ seqCall.campaign_id # NoId

\* C24: a successful track_event call for a parsed campaign adds exactly 1
\* to the stat counter of that campaign named after the event's type, and
\* changes no other stat counter of that campaign or of any other campaign.
C24_OneStatCounter ==
    SeqCallSucceeded =>
        LET c == seqCall.campaign_id[1]
            field == IF seqCall.etype = IMPRESSION THEN "impressions"
                     ELSE IF seqCall.etype = CLICK THEN "clicks"
                     ELSE "conversions"
            old == seqCall.pre.stats
        IN  /\ seqCall.etype \in {IMPRESSION, CLICK, CONVERSION}
            /\ StatCount(stats, c, field) = StatCount(old, c, field) + 1
            /\ \A g \in StatFields \ {field} :
                  StatCount(stats, c, g) = StatCount(old, c, g)
            /\ DOMAIN stats = DOMAIN old \cup {c}
            /\ \A k \in DOMAIN old \ {c} :
                  \A g \in StatFields : stats[k][g] = old[k][g]

\* a successful click on campaign 1, whose hash already counts 3 impressions
C24_Witness ==
    /\ SeqCallSucceeded
    /\ seqCall.campaign_id = Id(1)
    /\ seqCall.etype = CLICK
    /\ stats[1].clicks = 2
    /\ stats[1].impressions = 3
    /\ stats[2].impressions = 2

\* ---------------------------------------------------------------- C25
FreqPairs == DOMAIN freqDaily \cup DOMAIN freqHourly
                \cup DOMAIN seqCall.pre.freqDaily \cup DOMAIN seqCall.pre.freqHourly

\* C25: a successful impression with a user_id adds exactly 1 to the daily
\* and to the hourly counter of its (user, campaign) pair and changes no
\* other pair's counters; a click, a conversion or an impression without a
\* user_id changes no frequency counter, whatever the call returns.
C25_FrequencyOnlyForKnownUserImpressions ==
    seqCall.phase = "finished" =>
        LET oldDaily == seqCall.pre.freqDaily
            oldHourly == seqCall.pre.freqHourly
        IN  /\ SeqCallSucceeded /\ seqCall.etype = IMPRESSION
                 /\ seqCall.user_id # None
               => LET pair == <<seqCall.user_id, seqCall.campaign_id[1]>>
                  IN  /\ Count(freqDaily, pair) = Count(oldDaily, pair) + 1
                      /\ Count(freqHourly, pair) = Count(oldHourly, pair) + 1
                      /\ \A k \in FreqPairs \ {pair} :
                            /\ Count(freqDaily, k) = Count(oldDaily, k)
                            /\ Count(freqHourly, k) = Count(oldHourly, k)
            /\ seqCall.etype # IMPRESSION \/ seqCall.user_id = None
               => \A k \in FreqPairs :
                     /\ Count(freqDaily, k) = Count(oldDaily, k)
                     /\ Count(freqHourly, k) = Count(oldHourly, k)

\* a successful impression of user u1 on campaign 1
C25_Witness ==
    /\ SeqCallSucceeded
    /\ seqCall.etype = IMPRESSION
    /\ seqCall.user_id = "u1"
    /\ seqCall.campaign_id = Id(1)
    /\ freqDaily[<<"u1", 1>>].n = 2
    /\ freqHourly[<<"u1", 1>>].n = 2
    /\ freqDaily[<<"u1", 2>>].n = 2


\* ---------------------------------------------------------------- C26
ListOfStr(pv) == pv.t = "list" /\ \A i \in 1..Len(pv.v) : pv.v[i].t = "str"

\* a stored target_domains that is neither None nor (the text of) a list of
\* strings
MalformedDomains(stored) ==
    /\ stored.t # "none"
    /\ ~Loaded(stored).ok \/ ~ListOfStr(Loaded(stored).val)

\* a stored page_targeting that is neither None nor (the text of) a dict
\* whose include and exclude, where present, are lists of strings
MalformedPage(stored) ==
    /\ stored.t # "none"
    /\ \/ ~Loaded(stored).ok
       \/ Loaded(stored).val.t # "dict"
       \/ \E k \in {"include", "exclude"} \cap DOMAIN Loaded(stored).val.v :
             ~ListOfStr(Loaded(stored).val.v[k])

\* C26: for a malformed stored page_targeting or target_domains the check
\* of that value passes the campaign, and retrieve() raises nothing.
C26_MalformedFailsOpen ==
    fc.fn = "retrieve_stored" =>
        /\ MalformedPage(fc.page_targeting) => fc.page = Returns(TRUE)
        /\ MalformedDomains(fc.target_domains) => fc.domain = Returns(TRUE)
        /\ MalformedPage(fc.page_targeting) \/ MalformedDomains(fc.target_domains)
              => ~fc.out.raised


\* -------------------------------------------- retrieval, then tracking
\* The snapshot that _get_active_campaigns returns, as retrieve() reads it:
\* id, is_house_ad and the creatives' id, width and height of each
\* campaign_data dict (None as <<>>), for campaigns that carry no targeting
\* rule and no page or domain targeting.
SizeOf(pv) == IF pv.t = "none" THEN NoId ELSE Id(pv.v)

CreativesRead(creatives) ==
    [i \in 1..Len(creatives) |->
        CreativeData(creatives[i].v["id"].v, SizeOf(creatives[i].v["width"]),
                     SizeOf(creatives[i].v["height"]))]

SnapshotRead(list) ==
    [i \in 1..Len(list) |->
        SnapshotCampaign(list[i].v["id"].v, list[i].v["is_house_ad"].v, <<>>,
                         NoId, NoId, CreativesRead(list[i].v["creatives"].v))]

\* slot ids: sidebar-300x250, lb-728x90, banner
Sidebar300x250 == <<"s", "i", "d", "e", "b", "a", "r", "-", "3", "0", "0", "x", "2", "5", "0">>
E2ESlotIds ==
    { Sidebar300x250, <<"l", "b", "-", "7", "2", "8", "x", "9", "0">>,
      <<"b", "a", "n", "n", "e", "r">> }

\* limit of the retrieval stage
E2ELimit == 2

\* request_ads of user u for slot_id, on an empty cache: the snapshot is
\* built from the store, retrieve() filters it, and the first candidate is
\* returned with the impression URL that carries its ad_id
RetrieveAndIssue(u, slot_id) ==
    /\ fc.fn = "none"
    /\ pending[u] = <<>>
    /\ sess[1].pc = "idle"
    /\ LET snapshot == SnapshotRead(BuildList(campaigns, QueryActive(campaigns)))
           out == Retrieve(snapshot, NoContext, slot_id, E2ELimit, NoId)
       IN  /\ fc' = [fn |-> "retrieve", snapshot |-> snapshot, uc |-> NoContext,
                     slot_id |-> slot_id, limit |-> E2ELimit, page_url |-> NoId,
                     out |-> out, store |-> campaigns]
           /\ pending' = [pending EXCEPT ![u] =
                             IF Len(out) = 0 THEN <<>>
                             ELSE FormatAdId(out[1].campaign_id, out[1].creative_id)]
    /\ UNCHANGED <<campaigns, events, lock, sess, stats, freqDaily, freqHourly,
                   admitted, nCalls, failed, seqCall, cacheVars>>

\* campaign 1: bid 2.00, CPM or CPC, no budget, no cap, one 300x250
\* creative, spent_today 0.005 and spent_total 0.012 so far; campaign 2: the
\* house campaign; each ACTIVE or PAUSED
E2ESpent == <<5000, 12000>>

InitE2E ==
    /\ \E bt \in {CPM, CPC}, status1 \in {ACTIVE, PAUSED}, status2 \in {ACTIVE, PAUSED} :
          campaigns = (1 :> [CampaignRow(bt, 2000000, FALSE, 0, 0, 1) EXCEPT
                                !.spent_today = E2ESpent[1],
                                !.spent_total = E2ESpent[2],
                                !.status = status1])
                        @@ (2 :> [HouseCampaign EXCEPT !.status = status2])
    /\ InitRest

\* calls of track_event in one behaviour
MaxE2ECalls == 2

NextE2E ==
    \/ \E u \in Users, slot_id \in E2ESlotIds : RetrieveAndIssue(u, slot_id)
    \/ \E u \in Users :
          /\ nCalls < MaxE2ECalls
          /\ TrackEventGet(1, u)
          /\ seqCall' = [phase |-> "running", ad_id |-> pending[u],
                         event_type |-> <<"v">>, user_id |-> None,
                         pre |-> Observable, result |-> FALSE,
                         raised |-> FALSE, etype |-> None,
                         campaign_id |-> NoId, creative_id |-> NoId, cost |-> 0]
    \/ \E u \in Users, event_type \in {<<"c">>, <<"i", "m", "p">>} :
          /\ nCalls < MaxE2ECalls
          /\ pending[u] # <<>>
          /\ TrackEventPost(1, pending[u], event_type, u)
          /\ seqCall' = [phase |-> "running", ad_id |-> pending[u],
                         event_type |-> event_type, user_id |-> u,
                         pre |-> Observable, result |-> FALSE,
                         raised |-> FALSE, etype |-> None,
                         campaign_id |-> NoId, creative_id |-> NoId, cost |-> 0]
    \/ CalculateCost(1)
    \/ CalculateCostFails(1)
    \/ Flush(1)
    \/ FlushFails(1)
    \/ UpdateStatsIncr(1)
    \/ UpdateStatsExpire(1)
    \/ FreqDailyIncr(1)
    \/ FreqDailyExpire(1)
    \/ FreqHourlyIncr(1)
    \/ FreqHourlyExpire(1)
    \/ RedisFails(1)
    \/ /\ CommitSession(1)
       /\ seqCall' = [seqCall EXCEPT !.phase = "finished",
                                     !.result = sess[1].result,
                                     !.raised = sess[1].raised,
                                     !.etype = sess[1].etype,
                                     !.campaign_id = sess[1].campaign_id,
                                     !.creative_id = sess[1].creative_id,
                                     !.cost = sess[1].cost]

SpecE2E == InitE2E /\ [][NextE2E]_vars

\* ---------------------------------------------------------------- C27
\* the store of the scenario: campaign 1 is the only ACTIVE campaign, CPM
\* with bid 2.00, not a house ad, without rules, page or domain targeting,
\* budget or cap, and owns one creative, ACTIVE and 300x250
C27_Scenario(store) ==
    /\ \A c \in DOMAIN store : store[c].status = ACTIVE <=> c = 1
    /\ store[1].bid_type = CPM /\ store[1].bid_amount = 2000000
    /\ ~store[1].is_house_ad
    /\ store[1].targeting_rules = <<>>
    /\ store[1].page_targeting = PyNone /\ store[1].target_domains = PyNone
    /\ store[1].budget_daily = 0 /\ store[1].budget_total = 0
    /\ store[1].freq_cap_daily = 0 /\ store[1].freq_cap_hourly = 0
    /\ Len(store[1].creatives) = 1
    /\ store[1].creatives[1].status = ACTIVE
    /\ store[1].creatives[1].width = PyInt(300)
    /\ store[1].creatives[1].height = PyInt(250)

\* C27: in that scenario retrieve() for slot "sidebar-300x250" returns
\* exactly one candidate, and a successful impression for the ad_id issued
\* for it raises spent_today of the campaign by 0.002 (2000 millionths).
C27_EndToEnd ==
    fc.fn = "retrieve" /\ fc.slot_id = Sidebar300x250 /\ C27_Scenario(fc.store) =>
        /\ Len(fc.out) = 1
        /\ fc.out[1].campaign_id = 1
        /\ /\ seqCall.phase = "finished"
           /\ seqCall.result
           /\ seqCall.etype = IMPRESSION
           /\ seqCall.ad_id = FormatAdId(fc.out[1].campaign_id, fc.out[1].creative_id)
           => /\ seqCall.campaign_id = Id(1)
              /\ campaigns[1].spent_today
                    = seqCall.pre.campaigns[1].spent_today + 2000

C27_Witness ==
    /\ fc.fn = "retrieve" /\ fc.slot_id = Sidebar300x250 /\ C27_Scenario(fc.store)
    /\ Len(fc.out) = 1
    /\ seqCall.phase = "finished" /\ seqCall.result
    /\ seqCall.etype = IMPRESSION
    /\ seqCall.ad_id = <<"1", "_", "1">>
    /\ seqCall.pre.campaigns[1].spent_today = 5000
    /\ campaigns[1].spent_today = 7000


\* ---------------------------------------------------------------- C28
\* spent_today and spent_total of campaign c when the run began
SpentAtStart(c) == IF c = 1 THEN E2ESpent ELSE <<0, 0>>

\* C28: whenever the calls made so far, one at a time, have all been
\* committed, spent_total of every campaign has grown since the start by the
\* sum of the costs of the AdEvents persisted for it, and
\* spent_total - spent_today is what it was at the start.
C28_LedgerConservation ==
    sess[1].pc = "idle" =>
        \A c \in DOMAIN campaigns :
            /\ campaigns[c].spent_total - SpentAtStart(c)[2] = EventCosts(c)
            /\ campaigns[c].spent_total - campaigns[c].spent_today
                  = SpentAtStart(c)[2] - SpentAtStart(c)[1]

\* two committed calls on campaign 1, a CPM impression and a click, the
\* second of which returned False after its flush
C28_Witness ==
    /\ sess[1].pc = "idle"
    /\ nCalls = 2
    /\ failed
    /\ BagCardinality(events) = 2
    /\ EventCosts(1) = 2000
    /\ campaigns[1].spent_total = 14000
    /\ campaigns[1].spent_today = 7000


\* ---------------------------------------------------------------- C29
\* C29: every daily frequency key that exists carries an expiry of at most
\* 24h and every hourly one an expiry of at most 1h; stated for the states
\* in which no track_event call is running, so that a key is not looked at
\* between its increment and the expiry call of the same, unfailed, call.
C29_FrequencyKeysExpire ==
    Quiescent =>
        /\ \A k \in DOMAIN freqDaily : freqDaily[k].ttl \in 1..DailyTTL
        /\ \A k \in DOMAIN freqHourly : freqHourly[k].ttl \in 1..HourlyTTL

====
